---- MODULE Spec2Model ----
(***************************************************************************)
(* A model of soupy: the node tree, the filter combinators, the pattern    *)
(* abstraction and the query engine.                                       *)
(*                                                                         *)
(* Text is a sequence of one-character strings.  A node is a record with   *)
(* the fields of every HTMLNode variant; `kind` is the enum discriminant.  *)
(* A node reference (&N into a forest) is the path of child indices that   *)
(* leads to the node, so two equal subtrees at different places are        *)
(* different references.  Option<T> is a sequence of length 0 or 1.        *)
(***************************************************************************)
EXTENDS Integers, Sequences, FiniteSets, TLC

VARIABLES soup, prev, pc, query, iter, tree, out, hist, first, text, parsed

vars == <<soup, prev, pc, query, iter, tree, out, hist, first, text, parsed>>

\* ------------------------------------------------------------------ bounds

\* Largest number of nodes in a generated forest.
MaxNodes == 4

\* Largest number of builder calls in one query chain.
MaxChain == 2

\* ------------------------------------------------------------------- text

sA == <<"a">>

sB == <<"b">>

sT == <<"t">>

sId == <<"i", "d">>

sClass == <<"c", "l", "a", "s", "s">>

sFoo == <<"f", "o", "o">>

sBar == <<"b", "a", "r">>

sFooBar == <<"f", "o", "o", " ", "b", "a", "r">>

\* Option::None and Option::Some(x)
None == <<>>

Some(x) == <<x>>

\* The element of a one-element set; The({e(x) : x \in {v}}) is e with x bound
\* to the value v, computed once (a Rust `let`).
The(S) == CHOOSE x \in S : TRUE

\* ------------------------------------------------------------------ nodes

NoAttrs == [n \in {} |-> sA]

Comment(t) ==
    [kind |-> "Comment", name |-> <<>>, attrs |-> NoAttrs, children |-> <<>>, text |-> t]

Doctype(t) ==
    [kind |-> "Doctype", name |-> <<>>, attrs |-> NoAttrs, children |-> <<>>, text |-> t]

Text(t) ==
    [kind |-> "Text", name |-> <<>>, attrs |-> NoAttrs, children |-> <<>>, text |-> t]

Element(name, attrs, children) ==
    [kind |-> "Element", name |-> name, attrs |-> attrs, children |-> children, text |-> <<>>]

RawElement(name, attrs, content) ==
    [kind |-> "RawElement", name |-> name, attrs |-> attrs, children |-> <<>>, text |-> content]

Void(name, attrs) ==
    [kind |-> "Void", name |-> name, attrs |-> attrs, children |-> <<>>, text |-> <<>>]

Named == {"Element", "RawElement", "Void"}

\* Node::name
NodeName(node) == IF node.kind \in Named THEN Some(node.name) ELSE None

\* Node::text
NodeText(node) == IF node.kind = "Text" THEN Some(node.text) ELSE None

\* Node::attrs
NodeAttrs(node) == IF node.kind \in Named THEN Some(node.attrs) ELSE None

\* Node::children
NodeChildren(node) == IF node.kind = "Element" THEN node.children ELSE <<>>

\* The node a reference points to: path is a non-empty sequence of 1-based
\* indices, the first into the forest, the rest into children.
RECURSIVE NodeAt(_, _)
NodeAt(forest, path) ==
    IF Len(path) = 1
    THEN forest[path[1]]
    ELSE NodeAt(NodeChildren(forest[path[1]]), Tail(path))

\* ---------------------------------------------------------------- forests

Range(s) == {s[i] : i \in 1..Len(s)}

RECURSIVE ForestsOf(_, _, _)
\* Every forest of exactly n nodes whose leaves are drawn from `leaves` and
\* whose inner nodes are Elements with a (name, attrs) pair of `inner`.
ForestsOf(n, leaves, inner) ==
    IF n = 0
    THEN {<<>>}
    ELSE UNION {
           LET firsts == IF k = 1
                         THEN leaves
                         ELSE {Element(e[1], e[2], c) :
                                 e \in inner, c \in ForestsOf(k - 1, leaves, inner)}
           IN  {<<t>> \o f : t \in firsts, f \in ForestsOf(n - k, leaves, inner)}
           : k \in 1..n }

ForestsUpTo(n, leaves, inner) == UNION {ForestsOf(k, leaves, inner) : k \in 0..n}

AttrMap(pairs) == [n \in {p[1] : p \in pairs} |-> (CHOOSE p \in pairs : p[1] = n)[2]]

\* Documents whose shape varies: up to MaxNodes nodes, two element names.
ShapeInner == {<<sA, NoAttrs>>, <<sB, NoAttrs>>}

ShapeLeaves == {Element(sA, NoAttrs, <<>>), Text(sT)}

ShapeForests == ForestsUpTo(MaxNodes, ShapeLeaves, ShapeInner)

\* --------------------------------------------------------------- patterns

\* A Pattern value: a string (&str or String), a bool, or a regular
\* expression.  The regular expressions modelled are runs of literal
\* characters, for which Regex::is_match is a substring search.
StrPat(s) == [kind |-> "str", s |-> s, b |-> FALSE]

BoolPat(b) == [kind |-> "bool", s |-> <<>>, b |-> b]

RegexPat(s) == [kind |-> "regex", s |-> s, b |-> FALSE]

\* Regex::is_match for a literal regular expression: some substring of the
\* haystack equals it.
IsMatch(re, haystack) ==
    \E i \in 0..(Len(haystack) - Len(re)) :
        \A j \in 1..Len(re) : haystack[i + j] = re[j]

\* Pattern::matches
PatternMatches(p, haystack) ==
    CASE p.kind = "bool" -> p.b
      [] p.kind = "str" -> haystack = p.s
      [] p.kind = "regex" -> IsMatch(p.s, haystack)

\* Pattern::value (called as_str by the filters): the literal the pattern is
\* equal to, for the string patterns; the default None for the others.
PatternValue(p) == IF p.kind = "str" THEN Some(p.s) ELSE None

\* Pattern::as_bool: the literal of a boolean pattern.
PatternAsBool(p) == IF p.kind = "bool" THEN Some(p.b) ELSE None

\* ---------------------------------------------------------------- filters

\* The filter (), And(a, b), Or(a, b), Tag { tag }, Attr { name, value }.
Unit == [f |-> "Unit"]

And(a, b) == [f |-> "And", a |-> a, b |-> b]

Or(a, b) == [f |-> "Or", a |-> a, b |-> b]

Tag(p) == [f |-> "Tag", tag |-> p]

Attr(n, v) == [f |-> "Attr", name |-> n, value |-> v]

\* Filter<HTMLNode> for Tag<P>
TagMatches(flt, node) ==
    IF PatternAsBool(flt.tag) # None
    THEN PatternAsBool(flt.tag)[1]
    ELSE IF NodeName(node) # None
         THEN PatternMatches(flt.tag, NodeName(node)[1])
         ELSE FALSE

\* Attr::matches with the value of a literally named attribute not tested.
AttrMatchesNameOnly(flt, node) ==
    IF NodeAttrs(node) # None
    THEN LET attrs == NodeAttrs(node)[1] IN
         IF PatternValue(flt.name) # None
         THEN PatternValue(flt.name)[1] \in DOMAIN attrs
         ELSE \E name \in DOMAIN attrs :
                  PatternMatches(flt.name, name) /\ PatternMatches(flt.value, attrs[name])
    ELSE FALSE

\* Attr::matches with the name and the value looked for in separate scans.
AttrMatchesSplitScan(flt, node) ==
    IF NodeAttrs(node) # None
    THEN LET attrs == NodeAttrs(node)[1] IN
         IF PatternValue(flt.name) # None
         THEN LET name == PatternValue(flt.name)[1] IN
              IF name \in DOMAIN attrs
              THEN PatternMatches(flt.value, attrs[name])
              ELSE FALSE
         ELSE /\ \E name \in DOMAIN attrs : PatternMatches(flt.name, name)
              /\ \E name \in DOMAIN attrs : PatternMatches(flt.value, attrs[name])
    ELSE FALSE

\* Attr::matches with a literal name that the map lacks taken as a match.
AttrMatchesMissingMatches(flt, node) ==
    IF NodeAttrs(node) # None
    THEN LET attrs == NodeAttrs(node)[1] IN
         IF PatternValue(flt.name) # None
         THEN LET name == PatternValue(flt.name)[1] IN
              IF name \in DOMAIN attrs
              THEN PatternMatches(flt.value, attrs[name])
              ELSE TRUE
         ELSE \E name \in DOMAIN attrs :
                  PatternMatches(flt.name, name) /\ PatternMatches(flt.value, attrs[name])
    ELSE FALSE

\* The loop of Attr::matches over all the pairs of the map, which the code
\* runs when the name pattern reports no literal.
AttrMatchesScan(flt, node) ==
    IF NodeAttrs(node) # None
    THEN LET attrs == NodeAttrs(node)[1] IN
         \E name \in DOMAIN attrs :
             PatternMatches(flt.name, name) /\ PatternMatches(flt.value, attrs[name])
    ELSE FALSE

\* Filter<HTMLNode> for Attr<N, V>
AttrMatches(flt, node) ==
    IF NodeAttrs(node) # None
    THEN LET attrs == NodeAttrs(node)[1] IN
         IF PatternValue(flt.name) # None
         THEN LET name == PatternValue(flt.name)[1] IN
              IF name \in DOMAIN attrs
              THEN PatternMatches(flt.value, attrs[name])
              ELSE FALSE
         ELSE \E name \in DOMAIN attrs :
                  PatternMatches(flt.name, name) /\ PatternMatches(flt.value, attrs[name])
    ELSE FALSE

RECURSIVE FilterMatchesAndAsOr(_, _)
\* Filter::matches with And evaluated as Or.
FilterMatchesAndAsOr(flt, node) ==
    CASE flt.f = "Unit" -> TRUE
      [] flt.f \in {"And", "Or"} ->
             IF FilterMatchesAndAsOr(flt.a, node) THEN TRUE ELSE FilterMatchesAndAsOr(flt.b, node)
      [] flt.f = "Tag" -> TagMatches(flt, node)
      [] flt.f = "Attr" -> AttrMatches(flt, node)

RECURSIVE FilterMatches(_, _)
\* Filter::matches, by the filter's type
FilterMatches(flt, node) ==
    CASE flt.f = "Unit" -> TRUE
      [] flt.f = "And" -> IF FilterMatches(flt.a, node) THEN FilterMatches(flt.b, node) ELSE FALSE
      [] flt.f = "Or" -> IF FilterMatches(flt.a, node) THEN TRUE ELSE FilterMatches(flt.b, node)
      [] flt.f = "Tag" -> TagMatches(flt, node)
      [] flt.f = "Attr" -> AttrMatches(flt, node)

\* -------------------------------------------------------------- iterators

\* into_iter that starts after the node itself.
HTMLNodeIntoIterSkipSelf(node) == [node |-> node, child |-> None, next |-> Some(0)]

\* <&HTMLNode as IntoIterator>::into_iter: the depth-first iterator of the
\* node that `node` refers to, before its first item.
HTMLNodeIntoIter(node) == [node |-> node, child |-> None, next |-> None]

RECURSIVE HTMLNodeIterNextRestarts(_, _)
\* HTMLNodeIter::next that, at its end, goes back to its start.
HTMLNodeIterNextRestarts(forest, it) ==
    IF it.child # None
    THEN The({ IF r.item # None
               THEN [it |-> [it EXCEPT !.child = Some(r.it)], item |-> r.item]
               ELSE HTMLNodeIterNextRestarts(forest, [it EXCEPT !.child = None])
               : r \in {HTMLNodeIterNextRestarts(forest, it.child[1])} })
    ELSE IF it.next # None
         THEN The({ IF node.kind = "Element" /\ it.next[1] < Len(node.children)
                    THEN HTMLNodeIterNextRestarts(forest,
                             [it EXCEPT !.child = Some(HTMLNodeIntoIter(it.node \o <<it.next[1] + 1>>)),
                                        !.next = Some(it.next[1] + 1)])
                    ELSE [it |-> [it EXCEPT !.next = None], item |-> None]
                    : node \in {NodeAt(forest, it.node)} })
         ELSE [it |-> [it EXCEPT !.next = Some(0)], item |-> Some(it.node)]

RECURSIVE HTMLNodeIterNext(_, _)
\* HTMLNodeIter::next.  The result is the iterator after the call and the
\* item returned (None at the end).  `it.next` counts children from 0, as
\* the code does; child k is the path element k + 1.
HTMLNodeIterNext(forest, it) ==
    IF it.child # None
    THEN The({ IF r.item # None
               THEN [it |-> [it EXCEPT !.child = Some(r.it)], item |-> r.item]
               ELSE HTMLNodeIterNext(forest, [it EXCEPT !.child = None])
               : r \in {HTMLNodeIterNext(forest, it.child[1])} })
    ELSE IF it.next # None
         THEN The({ IF node.kind = "Element"
                    THEN IF it.next[1] < Len(node.children)
                         THEN HTMLNodeIterNext(forest,
                                  [it EXCEPT !.child = Some(HTMLNodeIntoIter(it.node \o <<it.next[1] + 1>>)),
                                             !.next = Some(it.next[1] + 1)])
                         ELSE [it |-> it, item |-> None]
                    ELSE [it |-> it, item |-> None]
                    : node \in {NodeAt(forest, it.node)} })
         ELSE [it |-> [it EXCEPT !.next = Some(0)], item |-> Some(it.node)]

\* std::slice::Iter over a forest: the number of items already taken.
SliceIter(forest) == 0

\* slice::Iter::next
SliceIterNext(forest, i) ==
    IF i < Len(forest)
    THEN [it |-> i + 1, item |-> Some(<<i + 1>>)]
    ELSE [it |-> i, item |-> None]

\* NodeIter::tree: the depth-first traversal of one node.
NodeIterTree(node) == [kind |-> "Tree", tree |-> HTMLNodeIntoIter(node), slice |-> 0]

\* NodeIter::direct: the items of the slice iterator it is given.
NodeIterDirect(i) == [kind |-> "Direct", tree |-> HTMLNodeIntoIter(<<>>), slice |-> i]

\* NodeIter::next of a NodeIter::tree: HTMLNodeIter::next.
NodeIterTreeNext(forest, ni) ==
    The({ [it |-> [ni EXCEPT !.tree = r.it], item |-> r.item]
          : r \in {HTMLNodeIterNext(forest, ni.tree)} })

\* NodeIter::next of a NodeIter::direct: the next item of its slice iterator,
\* with no descent into the item.
NodeIterDirectNext(forest, ni) ==
    The({ [it |-> [ni EXCEPT !.slice = r.it], item |-> r.item]
          : r \in {SliceIterNext(forest, ni.slice)} })

\* NodeIter::next
NodeIterNext(forest, ni) ==
    IF ni.kind = "Tree" THEN NodeIterTreeNext(forest, ni) ELSE NodeIterDirectNext(forest, ni)

\* MapNodeIter::new
MapNodeIterNew(forest, recursive) ==
    [iter |-> Some(SliceIter(forest)), recursive |-> recursive]

\* MapNodeIter::next with the mode ignored: every root is traversed.
MapNodeIterNextAlwaysTree(forest, m) ==
    IF m.iter # None
    THEN The({ IF r.item # None
               THEN [it |-> [m EXCEPT !.iter = Some(r.it)], item |-> Some(NodeIterTree(r.item[1]))]
               ELSE [it |-> [m EXCEPT !.iter = Some(r.it)], item |-> None]
               : r \in {SliceIterNext(forest, m.iter[1])} })
    ELSE [it |-> m, item |-> None]

\* MapNodeIter::next: the next NodeIter (None at the end).
MapNodeIterNext(forest, m) ==
    IF m.recursive
    THEN IF m.iter # None
         THEN The({ IF r.item # None
                    THEN [it |-> [m EXCEPT !.iter = Some(r.it)],
                          item |-> Some(NodeIterTree(r.item[1]))]
                    ELSE [it |-> [m EXCEPT !.iter = Some(r.it)], item |-> None]
                    : r \in {SliceIterNext(forest, m.iter[1])} })
         ELSE [it |-> m, item |-> None]
    ELSE IF m.iter # None
         THEN [it |-> [m EXCEPT !.iter = None], item |-> Some(NodeIterDirect(m.iter[1]))]
         ELSE [it |-> m, item |-> None]

\* Iterator::flatten on a MapNodeIter: the fused outer iterator and the
\* inner iterator in progress.
Flatten(m) == [iter |-> Some(m), frontiter |-> None]

RECURSIVE FlattenNext(_, _)
\* Flatten::next
FlattenNext(forest, fl) ==
    IF fl.frontiter # None
    THEN The({ IF r.item # None
               THEN [it |-> [fl EXCEPT !.frontiter = Some(r.it)], item |-> r.item]
               ELSE FlattenNext(forest, [fl EXCEPT !.frontiter = None])
               : r \in {NodeIterNext(forest, fl.frontiter[1])} })
    ELSE IF fl.iter # None
         THEN The({ IF r.item # None
                    THEN FlattenNext(forest, [fl EXCEPT !.iter = Some(r.it), !.frontiter = r.item])
                    ELSE [it |-> [fl EXCEPT !.iter = None], item |-> None]
                    : r \in {MapNodeIterNext(forest, fl.iter[1])} })
         ELSE [it |-> fl, item |-> None]

\* QueryIter::new
QueryIterNew(forest, recursive, filter) ==
    [iter |-> Flatten(MapNodeIterNew(forest, recursive)), filter |-> filter]

\* QueryIter::next without the filter: the next node, matching or not.
QueryIterNextUnfiltered(forest, qi) ==
    The({ [it |-> [qi EXCEPT !.iter = r.it], item |-> r.item]
          : r \in {FlattenNext(forest, qi.iter)} })

RECURSIVE QueryIterNext(_, _)
\* QueryIter::next
QueryIterNext(forest, qi) ==
    The({ IF r.item = None
          THEN [it |-> [qi EXCEPT !.iter = r.it], item |-> None]
          ELSE IF FilterMatches(qi.filter, NodeAt(forest, r.item[1]))
               THEN [it |-> [qi EXCEPT !.iter = r.it], item |-> r.item]
               ELSE QueryIterNext(forest, [qi EXCEPT !.iter = r.it])
          : r \in {FlattenNext(forest, qi.iter)} })

\* ---------------------------------------------------------------- queries

\* The Queryable methods.  `self` is None for &Soup and Some(query) for a
\* Query; a Query is its `recursive` flag and its filter, bound to `soup`.
QRecursive(self) ==
    IF self = None
    THEN [recursive |-> TRUE, filter |-> Unit]
    ELSE [recursive |-> TRUE, filter |-> self[1].filter]

QStrict(self) ==
    IF self = None
    THEN [recursive |-> FALSE, filter |-> Unit]
    ELSE [recursive |-> FALSE, filter |-> self[1].filter]

\* tag() that always gives a recursive query, as the one of &Soup does.
QTagForcesRecursive(self, tag) ==
    IF self = None
    THEN [recursive |-> TRUE, filter |-> And(Unit, Tag(tag))]
    ELSE [recursive |-> TRUE, filter |-> And(self[1].filter, Tag(tag))]

QTag(self, tag) ==
    IF self = None
    THEN [recursive |-> TRUE, filter |-> And(Unit, Tag(tag))]
    ELSE [recursive |-> self[1].recursive, filter |-> And(self[1].filter, Tag(tag))]

\* attr() that drops the filter built so far, as the one of &Soup does.
QAttrDropsFilter(self, name, value) ==
    IF self = None
    THEN [recursive |-> TRUE, filter |-> And(Unit, Attr(name, value))]
    ELSE [recursive |-> self[1].recursive, filter |-> And(Unit, Attr(name, value))]

QAttr(self, name, value) ==
    IF self = None
    THEN [recursive |-> TRUE, filter |-> And(Unit, Attr(name, value))]
    ELSE [recursive |-> self[1].recursive, filter |-> And(self[1].filter, Attr(name, value))]

QAttrName(self, name) == QAttr(self, name, BoolPat(TRUE))

QAttrValue(self, value) == QAttr(self, BoolPat(TRUE), value)

QClass(self, class) == QAttr(self, StrPat(sClass), class)

\* query() that keeps the whole forest of the item.
ItemQueryWholeForest(forest, item) == forest

\* query() that gives a Soup of the item itself.
ItemQueryOfSelf(forest, item) == <<NodeAt(forest, item)>>

\* QueryItem::query: the forest of the new Soup.
ItemQuery(forest, item) == NodeChildren(NodeAt(forest, item))

\* first() that returns the second item of the iterator.
QueryFirstSkipsOne(forest, q) ==
    LET it == QueryIterNew(forest, q.recursive, q.filter)
    IN  QueryIterNext(forest, QueryIterNext(forest, it).it).item

\* Queryable::first: self.into_iter().next()
QueryFirst(forest, q) ==
    QueryIterNext(forest, QueryIterNew(forest, q.recursive, q.filter)).item

\* ---------------------------------------------------------- state machine
\*
\* soup   the forest of the Soup in hand (Soup::nodes)
\* prev   None, or Some of the Soup and the item whose query() made `soup`
\* pc     "build": a Soup or a Query being built; "iter": a QueryIter in
\*        use; "done": the QueryIter has returned None; "tree" and
\*        "treedone": the same for a depth-first iterator of one node
\* query  None for the Soup itself, Some(Query) after a builder call
\* iter   the QueryIter, once the query was turned into an iterator
\* tree   the HTMLNodeIter, once a node was turned into an iterator
\* out    the items returned so far by the iterator in use
\* hist   the builder calls made: the last call, the last mode call, the
\*        number of calls, and the filter each call asked for
\* first  Some(the query and what first() returned for it), once first()
\*        was called on a copy of a query
\* text   Some(the input of Soup::html_strict: its text `src`, and the
\*        family and the case of that family the text was built from), None
\*        for a Soup given as a forest
\* parsed Some(what StrictHTMLParser::parse returned), once it has run

NoPat == BoolPat(FALSE)

NoCall == [op |-> "none", p1 |-> NoPat, p2 |-> NoPat]

NoHist == [last |-> NoCall, mode |-> "none", n |-> 0, added |-> <<>>]

InitWith(docs) ==
    /\ soup \in docs
    /\ prev = None
    /\ pc = "build"
    /\ query = None
    /\ iter = None
    /\ tree = None
    /\ out = <<>>
    /\ hist = NoHist
    /\ first = None
    /\ text = None
    /\ parsed = None

\* One builder call that gives the Query q.
Call(q, last, mode, added) ==
    /\ pc = "build"
    /\ hist.n < MaxChain
    /\ query' = Some(q)
    /\ hist' = [last |-> last, mode |-> mode, n |-> hist.n + 1, added |-> hist.added \o added]
    /\ UNCHANGED <<soup, prev, pc, iter, tree, out, first, text, parsed>>

CallRecursive ==
    Call(QRecursive(query), [op |-> "recursive", p1 |-> NoPat, p2 |-> NoPat], "recursive", <<>>)

CallStrict ==
    Call(QStrict(query), [op |-> "strict", p1 |-> NoPat, p2 |-> NoPat], "strict", <<>>)

CallTag(t) ==
    Call(QTag(query, t), [op |-> "tag", p1 |-> t, p2 |-> NoPat], hist.mode, <<Tag(t)>>)

CallAttr(n, v) ==
    Call(QAttr(query, n, v), [op |-> "attr", p1 |-> n, p2 |-> v], hist.mode, <<Attr(n, v)>>)

CallAttrName(n) ==
    Call(QAttrName(query, n), [op |-> "attr_name", p1 |-> n, p2 |-> NoPat], hist.mode,
         <<Attr(n, BoolPat(TRUE))>>)

CallAttrValue(v) ==
    Call(QAttrValue(query, v), [op |-> "attr_value", p1 |-> v, p2 |-> NoPat], hist.mode,
         <<Attr(BoolPat(TRUE), v)>>)

CallClass(c) ==
    Call(QClass(query, c), [op |-> "class", p1 |-> c, p2 |-> NoPat], hist.mode,
         <<Attr(StrPat(sClass), c)>>)

\* <Query as IntoIterator>::into_iter
IntoIter ==
    /\ pc = "build"
    /\ query # None
    /\ iter' = Some(QueryIterNew(soup, query[1].recursive, query[1].filter))
    /\ pc' = "iter"
    /\ UNCHANGED <<soup, prev, query, tree, out, hist, first, text, parsed>>

\* first() on a copy of the query (Query is Copy).
First ==
    /\ pc = "build"
    /\ query # None
    /\ first = None
    /\ first' = Some([q |-> query[1], item |-> QueryFirst(soup, query[1])])
    /\ UNCHANGED <<soup, prev, pc, query, iter, tree, out, hist, text, parsed>>

\* One call of QueryIter::next.
NextItem ==
    /\ pc \in {"iter", "done"}
    /\ \E r \in {QueryIterNext(soup, iter[1])} :
       /\ iter' = Some(r.it)
       /\ out' = IF r.item # None THEN Append(out, r.item[1]) ELSE out
       /\ pc' = IF r.item # None THEN pc ELSE "done"
    /\ UNCHANGED <<soup, prev, query, tree, hist, first, text, parsed>>

\* QueryItem::query on an item the iterator returned: a new Soup.
Requery ==
    /\ pc \in {"iter", "done"}
    /\ \E i \in 1..Len(out) :
         /\ prev' = Some([soup |-> soup, item |-> out[i]])
         /\ soup' = ItemQuery(soup, out[i])
    /\ pc' = "build"
    /\ query' = None
    /\ iter' = None
    /\ out' = <<>>
    /\ hist' = NoHist
    /\ first' = None
    /\ UNCHANGED <<tree, text, parsed>>

RECURSIVE PathsOf(_)
\* Every reference into a forest.
PathsOf(forest) ==
    UNION {{<<i>>} \cup {<<i>> \o p : p \in PathsOf(NodeChildren(forest[i]))} :
             i \in 1..Len(forest)}

\* The depth-first iterator of one node of the Soup.
Descendants ==
    /\ pc = "build"
    /\ query = None
    /\ \E p \in PathsOf(soup) : tree' = Some(HTMLNodeIntoIter(p))
    /\ pc' = "tree"
    /\ UNCHANGED <<soup, prev, query, iter, out, hist, first, text, parsed>>

\* One call of HTMLNodeIter::next.
TreeNext ==
    /\ pc \in {"tree", "treedone"}
    /\ \E r \in {HTMLNodeIterNext(soup, tree[1])} :
       /\ tree' = Some(r.it)
       /\ out' = IF r.item # None THEN Append(out, r.item[1]) ELSE out
       /\ pc' = IF r.item # None THEN pc ELSE "treedone"
    /\ UNCHANGED <<soup, prev, query, iter, hist, first, text, parsed>>

\* Spec: queries and traversals over documents of every shape.
TagPatterns == {StrPat(sA), BoolPat(TRUE)}

Init == InitWith(ShapeForests)

Next ==
    \/ CallRecursive
    \/ CallStrict
    \/ \E t \in TagPatterns : CallTag(t)
    \/ IntoIter
    \/ NextItem
    \/ Descendants
    \/ TreeNext

Spec == Init /\ [][Next]_vars

\* SpecRequery: a query, query() on one of its items, and a query over the
\* Soup that gives.
NextRequery ==
    \/ CallStrict
    \/ CallTag(StrPat(sA))
    \/ IntoIter
    \/ NextItem
    \/ Requery

SpecRequery == Init /\ [][NextRequery]_vars

\* SpecFilter: every builder call, with patterns of every kind, over nodes
\* of every variant.
RichAttrs ==
    { NoAttrs,
      AttrMap({<<sClass, sFoo>>}),
      AttrMap({<<sClass, sFooBar>>}),
      AttrMap({<<sId, sFoo>>}),
      AttrMap({<<sClass, sFoo>>, <<sId, sBar>>}) }

RichNodes ==
    {Text(sT), Comment(sT), Doctype(sT), Element(sB, NoAttrs, <<>>)}
    \cup {Element(sA, at, <<>>) : at \in RichAttrs}
    \cup {RawElement(sA, at, sT) : at \in RichAttrs}
    \cup {Void(sA, at) : at \in RichAttrs}

\* <b><a>t</a></b><a>t</a>, the document of test_query_copy, and a document
\* with a node of every variant.
TestDocs ==
    { << Element(sB, NoAttrs, <<Element(sA, NoAttrs, <<Text(sT)>>)>>),
         Element(sA, NoAttrs, <<Text(sT)>>) >>,
      << Doctype(sT),
         Element(sA, AttrMap({<<sClass, sFooBar>>}),
                 << Text(sT),
                    Void(sB, AttrMap({<<sId, sFoo>>})),
                    Element(sA, AttrMap({<<sClass, sFoo>>}), <<Comment(sT)>>) >>),
         RawElement(sA, NoAttrs, sT) >> }

FilterDocs == {<<n>> : n \in RichNodes} \cup TestDocs

FTagPatterns == {StrPat(sA), BoolPat(TRUE), BoolPat(FALSE)}

FNamePatterns == {StrPat(sClass), BoolPat(TRUE), RegexPat(<<"i">>)}

FValuePatterns == {StrPat(sFoo), BoolPat(TRUE)}

InitFilter == InitWith(FilterDocs)

NextFilter ==
    \/ CallRecursive
    \/ CallStrict
    \/ \E t \in FTagPatterns : CallTag(t)
    \/ \E n \in FNamePatterns, v \in FValuePatterns : CallAttr(n, v)
    \/ \E n \in FNamePatterns : CallAttrName(n)
    \/ \E v \in FValuePatterns : CallAttrValue(v)
    \/ \E c \in FValuePatterns : CallClass(c)
    \/ IntoIter
    \/ NextItem

SpecFilter == InitFilter /\ [][NextFilter]_vars

\* SpecLive: queries and traversals over nodes of every variant, with every
\* iterator in use called again and again.
NextLive ==
    \/ CallRecursive
    \/ CallStrict
    \/ \E t \in FTagPatterns : CallTag(t)
    \/ IntoIter
    \/ NextItem
    \/ Descendants
    \/ TreeNext

SpecLive == InitFilter /\ [][NextLive]_vars /\ WF_vars(NextItem) /\ WF_vars(TreeNext)

\* SpecItem: first(), all() and query() on the items, over nodes of every
\* variant.
NextOfItem ==
    \/ CallRecursive
    \/ CallStrict
    \/ \E t \in FTagPatterns : CallTag(t)
    \/ First
    \/ IntoIter
    \/ NextItem
    \/ Requery

SpecItem == InitFilter /\ [][NextOfItem]_vars

\* SpecShare: several sequences over one Soup, advanced in any order.  Here
\* `iter` is the tuple of the sequences made so far, each with what it was
\* made from (`kind` and `arg`), its own iterator `st`, the items it has
\* returned (`out`) and whether it has returned None (`done`); `first` is the
\* tuple of the first() results asked for, each with its query; `prev` is a
\* copy of the forest taken before any sequence was made.

\* The sequences and first() results made over one Soup.
MaxSeqs == 3

\* (&node).into_iter() (node.rs:108-119): a sequence of its own.
ShareTraversal(forest, node) ==
    [kind |-> "tree", arg |-> node, st |-> HTMLNodeIntoIter(node), out |-> <<>>, done |-> FALSE]

\* <Query as IntoIterator>::into_iter on a copy of the query q.
ShareQuery(forest, q) ==
    [kind |-> "query", arg |-> q, st |-> QueryIterNew(forest, q.recursive, q.filter),
     out |-> <<>>, done |-> FALSE]

\* A new sequence that goes on where an earlier one of the same making is.
NewSeqResumes(seqs, s) ==
    IF \E j \in 1..Len(seqs) : seqs[j].kind = s.kind /\ seqs[j].arg = s.arg
    THEN Append(seqs, [s EXCEPT !.st = seqs[CHOOSE j \in 1..Len(seqs) :
                                             seqs[j].kind = s.kind /\ seqs[j].arg = s.arg].st])
    ELSE Append(seqs, s)

\* A new sequence beside the ones there are: it has its own fields.
NewSeq(seqs, s) == Append(seqs, s)

\* Iterator::next of the sequence s: HTMLNodeIter::next or QueryIter::next.
SeqNext(forest, s) ==
    IF s.kind = "tree" THEN HTMLNodeIterNext(forest, s.st) ELSE QueryIterNext(forest, s.st)

\* next(&mut self) with the position kept in the source: every sequence
\* made from the same thing moves.
AdvancedInSource(seqs, k, r) ==
    [j \in 1..Len(seqs) |->
        IF j = k
        THEN [seqs[j] EXCEPT !.st = r.it,
                             !.out = IF r.item # None THEN Append(@, r.item[1]) ELSE @,
                             !.done = (r.item = None)]
        ELSE IF seqs[j].kind = seqs[k].kind /\ seqs[j].arg = seqs[k].arg
             THEN [seqs[j] EXCEPT !.st = r.it]
             ELSE seqs[j]]

\* next(&mut self): the call changes the fields of sequence k and nothing
\* else; r is what next returned.
Advanced(seqs, k, r) ==
    [seqs EXCEPT ![k] = [@ EXCEPT !.st = r.it,
                                  !.out = IF r.item # None THEN Append(@, r.item[1]) ELSE @,
                                  !.done = (r.item = None)]]

ShareDocs ==
    { << Element(sB, NoAttrs, <<Element(sA, NoAttrs, <<Text(sT)>>)>>),
         Element(sA, NoAttrs, <<Text(sT)>>) >>,
      << Element(sA, NoAttrs, <<Text(sT), Element(sA, NoAttrs, <<>>)>>) >> }

ShareQueries == [recursive : BOOLEAN, filter : {Tag(StrPat(sA))}]

NewTraversal ==
    /\ pc = "share"
    /\ Len(iter) + Len(first) < MaxSeqs
    /\ \E i \in 1..Len(soup) : iter' = NewSeq(iter, ShareTraversal(soup, <<i>>))
    /\ UNCHANGED <<soup, prev, pc, query, tree, out, hist, first, text, parsed>>

NewQuery ==
    /\ pc = "share"
    /\ Len(iter) + Len(first) < MaxSeqs
    /\ \E q \in ShareQueries : iter' = NewSeq(iter, ShareQuery(soup, q))
    /\ UNCHANGED <<soup, prev, pc, query, tree, out, hist, first, text, parsed>>

\* first() on a copy of a query.
ShareFirst ==
    /\ pc = "share"
    /\ Len(iter) + Len(first) < MaxSeqs
    /\ \E q \in ShareQueries : first' = Append(first, [q |-> q, item |-> QueryFirst(soup, q)])
    /\ UNCHANGED <<soup, prev, pc, query, iter, tree, out, hist, text, parsed>>

\* One call of next on one of the sequences.
Advance ==
    /\ pc = "share"
    /\ \E k \in 1..Len(iter) :
         /\ ~iter[k].done
         /\ iter' = Advanced(iter, k, SeqNext(soup, iter[k]))
    /\ UNCHANGED <<soup, prev, pc, query, tree, out, hist, first, text, parsed>>

InitShare ==
    /\ soup \in ShareDocs
    /\ prev = Some(soup)
    /\ pc = "share"
    /\ query = None
    /\ iter = <<>>
    /\ tree = None
    /\ out = <<>>
    /\ hist = NoHist
    /\ first = <<>>
    /\ text = None
    /\ parsed = None

NextShare ==
    \/ NewTraversal
    \/ NewQuery
    \/ ShareFirst
    \/ Advance

SpecShare == InitShare /\ [][NextShare]_vars


\* SpecText: all_text() of the nodes of documents with text in them.  Here
\* `out` holds the node all_text was called on and what it returned.

RECURSIVE TextsOf(_, _)
\* filter_map(Node::text) over the depth-first iterator `it`.
TextsOf(forest, it) ==
    The({ IF r.item = None THEN <<>>
          ELSE (IF NodeText(NodeAt(forest, r.item[1])) # None
                THEN <<NodeText(NodeAt(forest, r.item[1]))[1]>>
                ELSE <<>>) \o TextsOf(forest, r.it)
          : r \in {HTMLNodeIterNext(forest, it)} })

RECURSIVE JoinNewline(_)
\* [..].join("\n")
JoinNewline(parts) ==
    IF parts = <<>> THEN <<>>
    ELSE IF Len(parts) = 1 THEN parts[1]
    ELSE parts[1] \o <<"\n">> \o JoinNewline(Tail(parts))

\* all_text with a newline after every text.
AllTextNewlineAfterEach(forest, node) ==
    IF TextsOf(forest, HTMLNodeIntoIter(node)) = <<>> THEN <<>>
    ELSE JoinNewline(TextsOf(forest, HTMLNodeIntoIter(node))) \o <<"\n">>

\* Node::all_text
AllText(forest, node) == JoinNewline(TextsOf(forest, HTMLNodeIntoIter(node)))

TextLeaves == {Text(sT), Text(sFoo), Comment(sBar), RawElement(sB, NoAttrs, sBar)}

TextDocs == ForestsUpTo(MaxNodes, TextLeaves, {<<sA, NoAttrs>>}) \cup {<<Doctype(sBar), Text(sT)>>}

CallAllText ==
    /\ pc = "build"
    /\ \E p \in PathsOf(soup) : out' = <<[node |-> p, text |-> AllText(soup, p)]>>
    /\ pc' = "alltext"
    /\ UNCHANGED <<soup, prev, query, iter, tree, hist, first, text, parsed>>

InitAllText == InitWith(TextDocs)

NextAllText == CallAllText

SpecText == InitAllText /\ [][NextAllText]_vars


\* ---------------------------------------------------- the strict parser

\* Characters.  A str is a sequence of one-character strings.
Lowers ==
    << "a", "b", "c", "d", "e", "f", "g", "h", "i", "j", "k", "l", "m",
       "n", "o", "p", "q", "r", "s", "t", "u", "v", "w", "x", "y", "z" >>

Uppers ==
    << "A", "B", "C", "D", "E", "F", "G", "H", "I", "J", "K", "L", "M",
       "N", "O", "P", "Q", "R", "S", "T", "U", "V", "W", "X", "Y", "Z" >>

Digits == << "0", "1", "2", "3", "4", "5", "6", "7", "8", "9" >>

Alphanumeric == Range(Lowers) \cup Range(Uppers) \cup Range(Digits)

\* char::to_ascii_lowercase, as tag_no_case compares.
ToLower(c) ==
    IF c \in Range(Uppers)
    THEN Lowers[CHOOSE k \in 1..Len(Uppers) : Uppers[k] = c]
    ELSE c

LowerStr(s) == [k \in 1..Len(s) |-> ToLower(s[k])]

\* The characters nom's multispace0 skips.
Multispace == {" ", "\t", "\r", "\n"}

\* The characters str::trim removes (White_Space, as far as inputs go).
WhiteSpace == {" ", "\t", "\r", "\n", "\f"}

\* The length of the longest prefix of i made of characters for which
\* `stop` does not hold.
SpanUntil(i, stop) ==
    LET hits == {k \in 1..Len(i) : i[k] \in stop}
    IN  IF hits = {} THEN Len(i) ELSE (CHOOSE k \in hits : \A h \in hits : k <= h) - 1

Drop(i, n) == SubSeq(i, n + 1, Len(i))

Take(i, n) == SubSeq(i, 1, n)

\* IResult: Ok((rest, val)) or Err(Error(rest)).
Ok(rest, val) == [ok |-> TRUE, rest |-> rest, val |-> val]

Err(rest) == [ok |-> FALSE, rest |-> rest, val |-> <<>>]

\* nom::bytes::complete::tag
TagP(lit, i) ==
    IF Len(lit) <= Len(i) /\ Take(i, Len(lit)) = lit
    THEN Ok(Drop(i, Len(lit)), lit)
    ELSE Err(i)

\* nom::bytes::complete::tag_no_case: the value is the input as written.
TagNoCaseP(lit, i) ==
    IF Len(lit) <= Len(i) /\ LowerStr(Take(i, Len(lit))) = LowerStr(lit)
    THEN Ok(Drop(i, Len(lit)), Take(i, Len(lit)))
    ELSE Err(i)

\* nom::character::complete::char
CharP(c, i) == IF i # <<>> /\ i[1] = c THEN Ok(Tail(i), c) ELSE Err(i)

\* nom::bytes::complete::is_not: at least one character, none of `stop`.
IsNotP(stop, i) ==
    LET n == SpanUntil(i, stop)
    IN  IF n = 0 THEN Err(i) ELSE Ok(Drop(i, n), Take(i, n))

\* nom::character::complete::multispace0: what is left after the spaces.
Multispace0(i) == Drop(i, SpanUntil(i, {i[k] : k \in 1..Len(i)} \ Multispace))

\* nom::character::complete::alphanumeric1
Alphanumeric1P(i) ==
    LET n == SpanUntil(i, {i[k] : k \in 1..Len(i)} \ Alphanumeric)
    IN  IF n = 0 THEN Err(i) ELSE Ok(Drop(i, n), Take(i, n))

\* nom::bytes::complete::take_until: up to the first occurrence of lit,
\* which is left in the input.
TakeUntilP(lit, i) ==
    LET at == {k \in 0..(Len(i) - Len(lit)) : SubSeq(i, k + 1, k + Len(lit)) = lit}
    IN  IF at = {}
        THEN Err(i)
        ELSE LET n == CHOOSE k \in at : \A h \in at : k <= h
             IN  Ok(Drop(i, n), Take(i, n))

\* take_to: terminated(take_until(lit), tag(lit))
TakeTo(lit, i) ==
    LET r == TakeUntilP(lit, i)
    IN  IF r.ok THEN Ok(Drop(r.rest, Len(lit)), r.val) ELSE r

\* ws(char(c)): delimited(multispace0, char(c), multispace0)
WsChar(c, i) ==
    LET r == CharP(c, Multispace0(i))
    IN  IF r.ok THEN Ok(Multispace0(r.rest), c) ELSE r

\* str::trim
Trim(s) ==
    LET keep == {k \in 1..Len(s) : s[k] \notin WhiteSpace}
    IN  IF keep = {}
        THEN <<>>
        ELSE SubSeq(s, CHOOSE k \in keep : \A h \in keep : k <= h,
                       CHOOSE k \in keep : \A h \in keep : k >= h)

\* The names of void(), in the order of its alt.
VoidNames ==
    << <<"a", "r", "e", "a">>,
       <<"b", "a", "s", "e">>,
       <<"b", "r">>,
       <<"c", "o", "l">>,
       <<"e", "m", "b", "e", "d">>,
       <<"h", "r">>,
       <<"i", "m", "g">>,
       <<"i", "n", "p", "u", "t">>,
       <<"l", "i", "n", "k">>,
       <<"m", "e", "t", "a">>,
       <<"s", "o", "u", "r", "c", "e">>,
       <<"t", "r", "a", "c", "k">>,
       <<"w", "b", "r">> >>

\* The names of raw_element(), in the order of its alt.
RawNames == << <<"s", "c", "r", "i", "p", "t">>, <<"s", "t", "y", "l", "e">> >>

\* alt over tag_no_case of each name, in order.
AltTagNoCase(names, i) ==
    LET hits == {k \in 1..Len(names) : TagNoCaseP(names[k], i).ok}
    IN  IF hits = {}
        THEN Err(i)
        ELSE TagNoCaseP(names[CHOOSE k \in hits : \A h \in hits : k <= h], i)

VoidNameP(i) == AltTagNoCase(VoidNames, i)

RawNameP(i) == AltTagNoCase(RawNames, i)

\* The characters is_not(r#" "'>/="#) stops at.
AttrStop == {" ", "\"", "'", ">", "/", "="}

\* attr: the name of an attribute
AttrNameP(i) == IsNotP(AttrStop, i)

\* The grave accent (U+0060), which a string of this language cannot hold.
Grave == "grave"

\* The characters is_not(r#"\t\n\f\r "'=<>.."#) stops at, the grave accent
\* being the last: the literal is a raw string, so it begins with four
\* backslashes and the letters t, n, f and r, not with four control
\* characters.
UnquotedStop == {"\\", "t", "n", "f", "r", " ", "\"", "'", "=", "<", ">", Grave}

\* separated_pair(attr, ws(char('=')), is_not(..)): name=value
AttrUnquoted(i) ==
    The({ IF ~n.ok THEN n ELSE
          The({ IF ~e.ok THEN e ELSE
                The({ IF ~v.ok THEN v ELSE Ok(v.rest, <<n.val, v.val>>)
                      : v \in {IsNotP(UnquotedStop, e.rest)} })
                : e \in {WsChar("=", n.rest)} })
          : n \in {AttrNameP(i)} })

\* delimited(char(q), take_until(q), char(q))
QuotedP(q, i) ==
    The({ IF ~c.ok THEN c ELSE
          The({ IF ~t.ok THEN t ELSE Ok(Tail(t.rest), t.val)
                : t \in {TakeUntilP(<<q>>, c.rest)} })
          : c \in {CharP(q, i)} })

\* separated_pair(attr, ws(char('=')), alt(('..', ".."))): name='value'
AttrQuoted(i) ==
    The({ IF ~n.ok THEN n ELSE
          The({ IF ~e.ok THEN e ELSE
                The({ IF s.ok THEN Ok(s.rest, <<n.val, s.val>>) ELSE
                      The({ IF d.ok THEN Ok(d.rest, <<n.val, d.val>>) ELSE d
                            : d \in {QuotedP("\"", e.rest)} })
                      : s \in {QuotedP("'", e.rest)} })
                : e \in {WsChar("=", n.rest)} })
          : n \in {AttrNameP(i)} })

\* pair(attr, |i| Ok((i, ""))): a name alone
AttrBoolean(i) ==
    The({ IF ~n.ok THEN n ELSE Ok(n.rest, <<n.val, <<>>>>)
          : n \in {AttrNameP(i)} })

\* alt((unquoted, quoted, boolean))
AttrAny(i) ==
    The({ IF u.ok THEN u ELSE
          The({ IF q.ok THEN q ELSE AttrBoolean(i)
                : q \in {AttrQuoted(i)} })
          : u \in {AttrUnquoted(i)} })

RECURSIVE AttrsP(_)
\* many0(preceded(multispace0, alt((..)))): the attributes, as written
AttrsP(i) ==
    The({ IF ~r.ok THEN Ok(i, <<>>) ELSE
          The({ Ok(more.rest, <<r.val>> \o more.val)
                : more \in {AttrsP(r.rest)} })
          : r \in {AttrAny(Multispace0(i))} })

\* preceded(multispace0, alt((tag("/>") -> true, tag(">") -> false)))
TagEndP(i) ==
    The({ IF TagP(<<"/", ">">>, j).ok THEN Ok(Drop(j, 2), TRUE)
          ELSE IF TagP(<<">">>, j).ok THEN Ok(Drop(j, 1), FALSE)
          ELSE Err(j)
          : j \in {Multispace0(i)} })

\* The parser start_tag is given for the name: the alt of void, the alt of
\* raw_element, or alphanumeric1.
InnerP(inner, i) ==
    CASE inner = "void" -> VoidNameP(i)
      [] inner = "raw" -> RawNameP(i)
      [] inner = "alphanumeric1" -> Alphanumeric1P(i)

\* start_tag(inner): (name, attributes, self-closed)
StartTag(inner, i) ==
    The({ IF ~lt.ok THEN lt ELSE
          The({ IF ~n.ok THEN n ELSE
                The({ The({ IF ~c.ok THEN c ELSE
                            Ok(c.rest, [name |-> n.val, attrs |-> a.val, closed |-> c.val])
                            : c \in {TagEndP(a.rest)} })
                      : a \in {AttrsP(n.rest)} })
                : n \in {InnerP(inner, lt.rest)} })
          : lt \in {TagP(<<"<">>, i)} })

\* collect() that keeps the first value given for a name.
CollectAttrsFirstWins(pairs) ==
    [n \in {pairs[k][1] : k \in 1..Len(pairs)} |->
        pairs[CHOOSE k \in 1..Len(pairs) :
                  /\ pairs[k][1] = n
                  /\ \A h \in 1..Len(pairs) : pairs[h][1] = n => h >= k][2]]

\* attrs.into_iter().collect::<BTreeMap>(): a later pair replaces an earlier
\* one of the same name
CollectAttrs(pairs) ==
    [n \in {pairs[k][1] : k \in 1..Len(pairs)} |->
        pairs[CHOOSE k \in 1..Len(pairs) :
                  /\ pairs[k][1] = n
                  /\ \A h \in 1..Len(pairs) : pairs[h][1] = n => h <= k][2]]

\* comment: preceded(tag("<!--"), take_to("-->"))
CommentP(i) ==
    The({ IF ~o.ok THEN o ELSE
          The({ IF ~t.ok THEN t ELSE Ok(t.rest, Comment(t.val))
                : t \in {TakeTo(<<"-", "-", ">">>, o.rest)} })
          : o \in {TagP(<<"<", "!", "-", "-">>, i)} })

\* doctype: preceded(tag_no_case("<!doctype "), take_to(">"))
DoctypeP(i) ==
    The({ IF ~o.ok THEN o ELSE
          The({ IF ~t.ok THEN t ELSE Ok(t.rest, Doctype(t.val))
                : t \in {TakeTo(<<">">>, o.rest)} })
          : o \in {TagNoCaseP(<<"<", "!", "d", "o", "c", "t", "y", "p", "e", " ">>, i)} })

\* void that takes a tag for a void one only when it closes itself.
VoidPClosedOnly(i) ==
    The({ IF ~s.ok THEN s
          ELSE IF ~s.val.closed THEN Err(i)
          ELSE Ok(s.rest, Void(s.val.name, CollectAttrs(s.val.attrs)))
          : s \in {StartTag("void", i)} })

\* void: a start tag with one of the void names; the self-closing mark is
\* not looked at
VoidP(i) ==
    The({ IF ~s.ok THEN s
          ELSE Ok(s.rest, Void(s.val.name, CollectAttrs(s.val.attrs)))
          : s \in {StartTag("void", i)} })

\* The close tag with the name compared as it is written.
CloseTagPSameCase(name, i) ==
    The({ IF ~o.ok THEN o ELSE
          The({ IF ~n.ok THEN n ELSE CharP(">", Multispace0(n.rest))
                : n \in {TagP(name, o.rest)} })
          : o \in {TagP(<<"<", "/">>, i)} })

\* delimited(tag("</"), tag_no_case(name), preceded(multispace0, char('>')))
CloseTagP(name, i) ==
    The({ IF ~o.ok THEN o ELSE
          The({ IF ~n.ok THEN n ELSE CharP(">", Multispace0(n.rest))
                : n \in {TagNoCaseP(name, o.rest)} })
          : o \in {TagP(<<"<", "/">>, i)} })

\* raw_element that keeps the content as written.
RawElementPNoTrim(i) ==
    The({ IF ~s.ok THEN s
          ELSE IF s.val.closed
          THEN Ok(s.rest, RawElement(s.val.name, CollectAttrs(s.val.attrs), <<>>))
          ELSE The({ IF ~t.ok THEN t ELSE
                     The({ IF ~c.ok THEN c ELSE
                           Ok(c.rest, RawElement(s.val.name, CollectAttrs(s.val.attrs),
                                                 t.val))
                           : c \in {CloseTagP(s.val.name, t.rest)} })
                     : t \in {TakeUntilP(<<"<", "/">> \o s.val.name, s.rest)} })
          : s \in {StartTag("raw", i)} })

\* raw_element: script and style; the content runs up to the first "</name",
\* name as the start tag wrote it
RawElementP(i) ==
    The({ IF ~s.ok THEN s
          ELSE IF s.val.closed
          THEN Ok(s.rest, RawElement(s.val.name, CollectAttrs(s.val.attrs), <<>>))
          ELSE The({ IF ~t.ok THEN t ELSE
                     The({ IF ~c.ok THEN c ELSE
                           Ok(c.rest, RawElement(s.val.name, CollectAttrs(s.val.attrs),
                                                 Trim(t.val)))
                           : c \in {CloseTagP(s.val.name, t.rest)} })
                     : t \in {TakeUntilP(<<"<", "/">> \o s.val.name, s.rest)} })
          : s \in {StartTag("raw", i)} })

\* text: is_not("<")
TextP(i) ==
    The({ IF ~t.ok THEN t ELSE Ok(t.rest, Text(t.val))
          : t \in {IsNotP({"<"}, i)} })

RECURSIVE ElementP(_), SingleP(_), ParseP(_)

\* element that takes a missing or wrong close tag for the end of the element.
ElementPNoClose(i) ==
    The({ IF ~s.ok THEN s
          ELSE IF s.val.closed
          THEN Ok(s.rest, Element(s.val.name, CollectAttrs(s.val.attrs), <<>>))
          ELSE The({ The({ Ok(IF c.ok THEN c.rest ELSE k.rest,
                              Element(s.val.name, CollectAttrs(s.val.attrs), k.val))
                           : c \in {CloseTagP(s.val.name, k.rest)} })
                     : k \in {ParseP(s.rest)} })
          : s \in {StartTag("alphanumeric1", i)} })

\* element: a start tag with an alphanumeric name, then, unless it closed
\* itself, the children and the close tag
ElementP(i) ==
    The({ IF ~s.ok THEN s
          ELSE IF s.val.closed
          THEN Ok(s.rest, Element(s.val.name, CollectAttrs(s.val.attrs), <<>>))
          ELSE The({ The({ IF ~c.ok THEN c ELSE
                           Ok(c.rest, Element(s.val.name, CollectAttrs(s.val.attrs),
                                              k.val))
                           : c \in {CloseTagP(s.val.name, k.rest)} })
                     : k \in {ParseP(s.rest)} })
          : s \in {StartTag("alphanumeric1", i)} })

\* single: alt((comment, doctype, void, raw_element, element, text)); the
\* error of alt is the one of its last parser
SingleP(i) ==
    The({ IF c.ok THEN c ELSE
    The({ IF d.ok THEN d ELSE
    The({ IF v.ok THEN v ELSE
    The({ IF r.ok THEN r ELSE
    The({ IF e.ok THEN e ELSE TextP(i)
          : e \in {ElementP(i)} })
          : r \in {RawElementP(i)} })
          : v \in {VoidP(i)} })
          : d \in {DoctypeP(i)} })
          : c \in {CommentP(i)} })

\* parse: many0(single)
ParseP(i) ==
    The({ IF ~r.ok THEN Ok(i, <<>>) ELSE
          The({ Ok(more.rest, <<r.val>> \o more.val)
                : more \in {ParseP(r.rest)} })
          : r \in {SingleP(i)} })

\* ENTITIES: the named references of the entity table that inputs use, with
\* and without the semicolon where the table has both.
Entities ==
    { << <<"&", "a", "m", "p", ";">>, <<"&">> >>,
      << <<"&", "a", "m", "p">>, <<"&">> >>,
      << <<"&", "l", "t", ";">>, <<"<">> >>,
      << <<"&", "l", "t">>, <<"<">> >> }

\* CODEPOINTS: the code points of the table that inputs use.
Codepoints == { <<38, <<"&">> >>, <<47, <<"/">> >>, <<60, <<"<">> >> }

Letters == Range(Lowers) \cup Range(Uppers)

HexDigits ==
    Range(Digits) \cup {"a", "b", "c", "d", "e", "f", "A", "B", "C", "D", "E", "F"}

\* The length of the prefix of s made of characters of `set`.
SpanOf(s, set) == SpanUntil(s, {s[k] : k \in 1..Len(s)} \ set)

\* The length of the match of ESCAPE at the start of t, 0 when there is none:
\* &(([a-zA-Z]+;?)|(#[0-9]+;)|(#[xX][a-fA-F0-9]+;))
EscapeMatch(t) ==
    IF t = <<>> \/ t[1] # "&" THEN 0 ELSE
    LET n == SpanOf(Drop(t, 1), Letters)
        d == SpanOf(Drop(t, 2), Range(Digits))
        h == SpanOf(Drop(t, 3), HexDigits)
    IN  IF n >= 1
        THEN IF Len(t) > n + 1 /\ t[n + 2] = ";" THEN n + 2 ELSE n + 1
        ELSE IF Len(t) >= 2 /\ t[2] = "#"
        THEN IF d >= 1 /\ Len(t) >= d + 3 /\ t[d + 3] = ";" THEN d + 3
             ELSE IF Len(t) >= 3 /\ t[3] \in {"x", "X"} /\ h >= 1
                     /\ Len(t) >= h + 4 /\ t[h + 4] = ";" THEN h + 4
             ELSE 0
        ELSE 0

\* The value of one digit in a base.
DigitValue(c) ==
    IF c \in Range(Digits)
    THEN (CHOOSE k \in 1..10 : Digits[k] = c) - 1
    ELSE (CHOOSE k \in 1..6 : Lowers[k] = ToLower(c)) + 9

\* A u32 is kept as two 16-bit halves, <<high, low>>.
Half == 256 * 256

RECURSIVE ParseU32(_, _, _)
\* str::parse::<u32> and u32::from_str_radix: None on overflow and on a
\* character that is no digit of the base.
ParseU32(s, base, acc) ==
    IF s = <<>> THEN Some(acc)
    ELSE IF s[1] \notin (IF base = 16 THEN HexDigits ELSE Range(Digits)) THEN None
    ELSE LET low == acc[2] * base + DigitValue(s[1])
             high == acc[1] * base + (low \div Half)
         IN  IF high >= Half THEN None
             ELSE ParseU32(Tail(s), base, <<high, low % Half>>)

RECURSIVE TrimStartMatches(_, _), TrimEndMatches(_, _)
TrimStartMatches(s, lit) ==
    IF Len(lit) <= Len(s) /\ Take(s, Len(lit)) = lit
    THEN TrimStartMatches(Drop(s, Len(lit)), lit)
    ELSE s

TrimEndMatches(s, c) ==
    IF s # <<>> /\ s[Len(s)] = c THEN TrimEndMatches(Take(s, Len(s) - 1), c) ELSE s

\* CODEPOINTS.get
CodepointText(cp) ==
    LET hits == {e \in Codepoints : cp[1] = e[1] \div Half /\ cp[2] = e[1] % Half}
    IN  IF hits = {} THEN None ELSE Some((CHOOSE e \in hits : TRUE)[2])

\* escape_ref
\* escape_ref giving a placeholder for what it does not resolve.
EscapeRefPlaceholder(m) ==
    IF \E e \in Entities : e[1] = m
    THEN Some((CHOOSE e \in Entities : e[1] = m)[2])
    ELSE Some(<<"?">>)

EscapeRef(m) ==
    IF \E e \in Entities : e[1] = m
    THEN Some((CHOOSE e \in Entities : e[1] = m)[2])
    ELSE The({ The({ IF codepoint = None THEN None ELSE CodepointText(codepoint[1])
                     : codepoint \in
                         {IF val # <<>> /\ val[1] \in {"x", "X"}
                          THEN IF Len(val) = 1 THEN None
                               ELSE ParseU32(Tail(val), 16, <<0, 0>>)
                          ELSE IF val = <<>> THEN None
                               ELSE ParseU32(val, 10, <<0, 0>>)} })
               : val \in {TrimEndMatches(TrimStartMatches(m, <<"&", "#">>), ";")} })

RECURSIVE EscapeText(_)
\* escape_text: every match of ESCAPE that resolves is replaced, the rest is
\* copied
EscapeText(t) ==
    IF t = <<>> THEN <<>> ELSE
    The({ IF n = 0
          THEN <<t[1]>> \o EscapeText(Tail(t))
          ELSE The({ (IF r # None THEN r[1] ELSE Take(t, n)) \o EscapeText(Drop(t, n))
                     : r \in {EscapeRef(Take(t, n))} })
          : n \in {EscapeMatch(t)} })

\* escape_attrs
EscapeAttrs(attrs) == [k \in DOMAIN attrs |-> EscapeText(attrs[k])]

\* escape_node without the map over the children.
EscapeNodeShallow(node) ==
    CASE node.kind = "Comment" -> node
      [] node.kind = "Doctype" -> node
      [] node.kind = "Element" -> Element(node.name, EscapeAttrs(node.attrs), node.children)
      [] node.kind = "RawElement" -> RawElement(node.name, EscapeAttrs(node.attrs), node.text)
      [] node.kind = "Void" -> Void(node.name, EscapeAttrs(node.attrs))
      [] node.kind = "Text" -> Text(EscapeText(node.text))

RECURSIVE EscapeNode(_)
\* escape_node
EscapeNode(node) ==
    CASE node.kind = "Comment" -> node
      [] node.kind = "Doctype" -> node
      [] node.kind = "Element" ->
             Element(node.name, EscapeAttrs(node.attrs),
                     [k \in 1..Len(node.children) |-> EscapeNode(node.children[k])])
      [] node.kind = "RawElement" -> RawElement(node.name, EscapeAttrs(node.attrs), node.text)
      [] node.kind = "Void" -> Void(node.name, EscapeAttrs(node.attrs))
      [] node.kind = "Text" -> Text(EscapeText(node.text))

\* parse_escaped
ParseEscaped(i) ==
    The({ Ok(r.rest, [k \in 1..Len(r.val) |-> EscapeNode(r.val[k])])
          : r \in {ParseP(i)} })

\* parse that returns the nodes parsed so far, whatever input is left.
StrictParsePartial(i) == Ok(<<>>, ParseEscaped(i).val)

\* StrictHTMLParser::parse: all_consuming(parse_escaped)
StrictParse(i) ==
    The({ IF r.rest = <<>> THEN r ELSE Err(r.rest)
          : r \in {ParseEscaped(i)} })

\* ------------------------------------------------ SpecParse: html_strict

\* Largest nesting depth of the generated markup.
MaxDepth == 2

\* Soup::html_strict(text): the forest on success, the error otherwise.
HtmlStrict ==
    /\ pc = "text"
    /\ parsed = None
    /\ \E r \in {StrictParse(text[1].src)} :
       /\ parsed' = Some(r)
       /\ soup' = IF r.ok THEN r.val ELSE soup
       /\ pc' = IF r.ok THEN "build" ELSE "error"
    /\ UNCHANGED <<prev, query, iter, tree, out, hist, first, text>>

InitText(inputs) ==
    /\ text \in {Some(t) : t \in inputs}
    /\ parsed = None
    /\ soup = <<>>
    /\ prev = None
    /\ pc = "text"
    /\ query = None
    /\ iter = None
    /\ tree = None
    /\ out = <<>>
    /\ hist = NoHist
    /\ first = None

\* "<name>" inner "</name>"
Wrapped(name, inner) == <<"<">> \o name \o <<">">> \o inner \o <<"<", "/">> \o name \o <<">">>

RECURSIVE WellFormed(_)
\* Markup every start tag of which is closed, nested up to depth d.
WellFormed(d) ==
    IF d = 0
    THEN {<<>>, <<"t">>}
    ELSE WellFormed(d - 1)
         \cup {Wrapped(sA, w) : w \in WellFormed(d - 1)}
         \cup {Wrapped(sB, w) \o <<"t">> : w \in WellFormed(d - 1)}

RECURSIVE Unclosed(_)
\* Markup with an element that is not closed by a tag of its name, at depth
\* d at most: the close tag is missing or names another element.
Unclosed(d) ==
    {<<"<", "a", ">">> \o w : w \in WellFormed(0)}
    \cup {<<"<", "a", ">">> \o w \o <<"<", "/", "b", ">">> : w \in WellFormed(0)}
    \cup {<<"<", "a", " ", "x", "=", "1", ">">> \o w \o <<"<", "/", "a", "b", ">">> : w \in WellFormed(0)}
    \cup (IF d = 0 THEN {}
          ELSE {<<"<", "b", ">">> \o u \o <<"<", "/", "b", ">">> : u \in Unclosed(d - 1)})

\* The same after well-formed top-level nodes and before one.
UnclosedDocs ==
    {w \o u \o v : w \in {<<>>, <<"<", "b", ">", "<", "/", "b", ">">>, <<"t", "<", "h", "r", ">">>},
                   u \in Unclosed(MaxDepth),
                   v \in {<<>>, <<"<", "b", ">", "<", "/", "b", ">">>}}

\* Suffixes no node can be parsed from.
Unparsable ==
    { <<"<", "/", "a", ">">>, <<"<">>, <<"<", " ", "b">>, <<"<", ">">>, <<"<", "!", "-", "-", "x">>, <<"<", "!", "-", "-", "x", "-", ">">>,
      <<"<", "!", "d", "o", "c", "t", "y", "p", "e", " ", "x">>, <<"<", "!", "d", "o", "c", "t", "y", "p", "e", ">">>, <<"<", "a">>, <<"<", "a", " ", "b", "=", "'", ">">> }

BadSuffixDocs == {w \o u : w \in WellFormed(MaxDepth), u \in Unparsable}

GoodDocs == WellFormed(MaxDepth) \cup {w \o v : w, v \in WellFormed(1)}

\* Attribute lists as written after a tag name, with the pairs they declare
\* and whether the last value is unquoted.
VoidAttrLists ==
    { [src |-> <<>>, pairs |-> {}, unquoted |-> FALSE],
      [src |-> <<" ", "a">>, pairs |-> {<<<<"a">>, <<>>>>}, unquoted |-> FALSE],
      [src |-> <<" ", "a", "=", "\"", "v", "\"">>, pairs |-> {<<<<"a">>, <<"v">>>>}, unquoted |-> FALSE],
      [src |-> <<" ", "b", " ", "a", "=", "'", "v", "'">>, pairs |-> {<<<<"b">>, <<>>>>, <<<<"a">>, <<"v">>>>}, unquoted |-> FALSE],
      [src |-> <<" ", "a", "=", "v">>, pairs |-> {<<<<"a">>, <<"v">>>>}, unquoted |-> TRUE],
      [src |-> <<" ", "b", "=", "\"", "w", "\"", " ", "a", "=", "v">>, pairs |-> {<<<<"b">>, <<"w">>>>, <<<<"a">>, <<"v">>>>}, unquoted |-> TRUE] }

\* The ends of a start tag: with and without the slash, with and without a
\* space before.
TagEnds ==
    { [src |-> <<">">>, slash |-> FALSE, space |-> FALSE],
      [src |-> <<" ", ">">>, slash |-> FALSE, space |-> TRUE],
      [src |-> <<"/", ">">>, slash |-> TRUE, space |-> FALSE],
      [src |-> <<" ", "/", ">">>, slash |-> TRUE, space |-> TRUE] }

VoidCaseNames == {<<"h", "r">>, <<"B", "R">>, <<"I", "m", "g">>, <<"i", "n", "p", "u", "t">>, <<"c", "o", "l">>}

\* What follows the void tag.
VoidCaseTails == {<<>>, <<"t">>, <<"<", "b", ">", "t", "<", "/", "b", ">">>}

VoidCases ==
    [name : VoidCaseNames, al : VoidAttrLists, end : TagEnds, tail : VoidCaseTails]

BuildTag(c) == <<"<">> \o c.name \o c.al.src \o c.end.src \o c.tail


\* Tag names: the void names, void names in other case, names that begin
\* with a void name, and other names.
VoidNamesOtherCase == {<<"B", "R">>, <<"H", "r">>, <<"I", "M", "G">>, <<"w", "B", "r">>}

VoidPrefixedNames == {<<"c", "o", "l", "g", "r", "o", "u", "p">>, <<"b", "a", "s", "e", "f", "o", "n", "t">>, <<"b", "r", "2">>, <<"h", "r", "s">>, <<"l", "i", "n", "k", "e", "d">>}

OtherNames == {<<"a">>, <<"d", "i", "v">>, <<"p">>, <<"h", "1">>, <<"D", "I", "V">>}

TagNames == Range(VoidNames) \cup VoidNamesOtherCase \cup VoidPrefixedNames \cup OtherNames

\* The forms of a tag without attributes: "void" <n>, "closed" <n/>, "pair"
\* <n></n>
TagForms == {"void", "closed", "pair"}

NameCases == [name : TagNames, form : TagForms]

BuildName(c) ==
    CASE c.form = "void" -> <<"<">> \o c.name \o <<">">>
      [] c.form = "closed" -> <<"<">> \o c.name \o <<"/", ">">>
      [] c.form = "pair" -> Wrapped(c.name, <<>>)


\* Raw elements: the start tag's name, the name of the close tag, the
\* content as written and as it is after trimming.
RawContents ==
    { [src |-> <<>>, trimmed |-> <<>>],
      [src |-> <<"x">>, trimmed |-> <<"x">>],
      [src |-> <<" ", "a", " ", "<", " ", "b", " ">>, trimmed |-> <<"a", " ", "<", " ", "b">>],
      [src |-> <<"\n", "<", "b", ">", "t", "<", "/", "b", ">", "\t">>, trimmed |-> <<"<", "b", ">", "t", "<", "/", "b", ">">>],
      [src |-> <<"\f", "<", "/", "p", ">", "\r", "\n">>, trimmed |-> <<"<", "/", "p", ">">>],
      [src |-> <<"<", "!", "-", "-", " ", "x">>, trimmed |-> <<"<", "!", "-", "-", " ", "x">>] }

RawStartNames == {<<"s", "c", "r", "i", "p", "t">>, <<"s", "t", "y", "l", "e">>, <<"S", "C", "R", "I", "P", "T">>, <<"S", "t", "y", "l", "e">>}

RawCloseNames == {<<"s", "c", "r", "i", "p", "t">>, <<"s", "t", "y", "l", "e">>, <<"S", "C", "R", "I", "P", "T">>, <<"S", "t", "y", "l", "e">>, <<"S", "T", "Y", "L", "E">>}

RawAttrLists ==
    { [src |-> <<>>, pairs |-> {}],
      [src |-> <<" ", "t", "y", "p", "e", "=", "\"", "x", "\"">>, pairs |-> {<<<<"t", "y", "p", "e">>, <<"x">>>>}] }

\* <name attrs>content</close> with or without a space before the last ">",
\* and the self-closed <name attrs/>.
RawCases ==
    { c \in [name : RawStartNames, close : RawCloseNames, al : RawAttrLists,
             content : RawContents, space : BOOLEAN, closed : BOOLEAN, tail : {<<>>, <<"t">>}] :
        /\ LowerStr(c.name) = LowerStr(c.close)
        /\ c.closed => (c.close = c.name /\ c.content.src = <<>> /\ ~c.space) }

BuildRaw(c) ==
    IF c.closed
    THEN <<"<">> \o c.name \o c.al.src \o <<"/", ">">> \o c.tail
    ELSE <<"<">> \o c.name \o c.al.src \o <<">">> \o c.content.src
             \o <<"<", "/">> \o c.close \o (IF c.space THEN <<" ">> ELSE <<>>) \o <<">">> \o c.tail


\* One attribute of <hr ..>: its value, how the value is written, and the
\* white space before and after "=".
AttrValues == {<<"y", "e", "s">>, <<"o", "k">>, <<"x", "-", "1">>, <<"t", "e", "n">>}

AttrQuotes == {"none", "single", "double"}

SpaceBefore == {<<>>, <<" ">>, <<" ", " ">>, <<"\t">>}

SpaceAfter == {<<>>, <<" ">>, <<"\n", " ">>}

AttrCases == [value : AttrValues, quote : AttrQuotes, before : SpaceBefore, after : SpaceAfter]

Quote(q, v) ==
    CASE q = "none" -> v
      [] q = "single" -> <<"'">> \o v \o <<"'">>
      [] q = "double" -> <<"\"">> \o v \o <<"\"">>

BuildAttr(c) ==
    <<"<", "h", "r", " ", "v", "a", "l", "u", "e">> \o c.before \o <<"=">> \o c.after \o Quote(c.quote, c.value) \o <<">">>

\* test_void: a name alone, and attributes of every form in one tag
BooleanAttrDoc == <<"<", "h", "r", " ", "d", "i", "s", "a", "b", "l", "e", "d", ">">>

MixedAttrDoc == <<"<", "h", "r", " ", "v", "a", "l", "u", "e", "=", "\"", "y", "e", "s", "\"", " ", "n", "e", "x", "t", "=", "'", "g", "o", "o", "d", "'", " ", "f", "i", "n", "a", "l", "=", "o", "k", " ", "b", "o", "o", "l", "e", "a", "n", ">">>

MixedAttrs ==
    AttrMap({ <<<<"v", "a", "l", "u", "e">>, <<"y", "e", "s">>>>, <<<<"n", "e", "x", "t">>, <<"g", "o", "o", "d">>>>,
              <<<<"f", "i", "n", "a", "l">>, <<"o", "k">>>>, <<<<"b", "o", "o", "l", "e", "a", "n">>, <<>>>> })

\* Unquoted values and what ends them.
UnquotedValues == {<<"y", "e", "s">>, <<"t", "e", "n">>, <<"f", "a", "r">>, <<"a", "\\", "b">>, <<"x", "/", "y">>, <<"1">>}

UnquotedEnds == {<<>>, <<" ">>, <<"\t">>, <<"\n">>, <<"\f">>, <<"\r">>}

UnquotedCases == [value : UnquotedValues, end : UnquotedEnds]

BuildUnquoted(c) == <<"<", "h", "r", " ", "v", "a", "l", "u", "e", "=">> \o c.value \o c.end \o <<">">>

\* An input: the text, and the family and case it was built from.
\* Character references the tables resolve, with the text they stand for.
ResolvableRefs ==
    { [src |-> <<"&", "a", "m", "p", ";">>, text |-> <<"&">>],
      [src |-> <<"&", "a", "m", "p">>, text |-> <<"&">>],
      [src |-> <<"&", "l", "t", ";">>, text |-> <<"<">>],
      [src |-> <<"&", "#", "3", "8", ";">>, text |-> <<"&">>],
      [src |-> <<"&", "#", "0", "0", "6", "0", ";">>, text |-> <<"<">>],
      [src |-> <<"&", "#", "x", "2", "F", ";">>, text |-> <<"/">>],
      [src |-> <<"&", "#", "X", "3", "c", ";">>, text |-> <<"<">>] }

\* Where a reference is written in a document.
RefPlaces ==
    {"text", "attr", "voidattr", "rawattr", "attrname", "comment", "doctype", "raw"}

RefCases == [ref : ResolvableRefs, place : RefPlaces, depth : 0..MaxDepth]

RECURSIVE NestSrc(_, _)
\* inner inside d elements <a>..</a>
NestSrc(d, inner) == IF d = 0 THEN inner ELSE Wrapped(sA, NestSrc(d - 1, inner))

BuildRef(c) ==
    NestSrc(c.depth,
        CASE c.place = "text" -> <<"1">> \o c.ref.src \o <<"2">>
          [] c.place = "attr" -> <<"<", "b", " ", "k", "=", "\"">> \o c.ref.src \o <<"\"", ">", "t", "<", "/", "b", ">">>
          [] c.place = "voidattr" -> <<"<", "h", "r", " ", "k", "=", "'">> \o c.ref.src \o <<"'", ">">>
          [] c.place = "rawattr" -> <<"<", "s", "t", "y", "l", "e", " ", "k", "=", "\"">> \o c.ref.src \o <<"\"", ">", "t", "<", "/", "s", "t", "y", "l", "e", ">">>
          [] c.place = "attrname" -> <<"<", "h", "r", " ">> \o c.ref.src \o <<">">>
          [] c.place = "comment" -> <<"<", "!", "-", "-">> \o c.ref.src \o <<"-", "-", ">">>
          [] c.place = "doctype" -> <<"<", "!", "d", "o", "c", "t", "y", "p", "e", " ">> \o c.ref.src \o <<">">>
          [] c.place = "raw" -> <<"<", "s", "c", "r", "i", "p", "t", ">">> \o c.ref.src \o <<"<", "/", "s", "c", "r", "i", "p", "t", ">">>)

\* test_escaping
EscapingDoc == <<"<", "a", " ", "h", "r", "e", "f", "=", "\"", "&", "#", "x", "2", "F", ";", "i", "n", "d", "e", "x", ".", "h", "t", "m", "l", "\"", ">", "H", "e", "l", "l", "o", " ", "&", "a", "m", "p", ";", " ", "G", "o", "o", "d", "b", "y", "e", "!", "<", "/", "a", ">">>

\* References that do not resolve: a name the table lacks, a number that
\* overflows u32, a number without an entry.
UnresolvedRefs ==
    { <<"&", "f", "o", "o", ";">>, <<"&", "b", "a", "r">>, <<"&", "a", "m", "p", "e", "r", "e", ";">>,
      <<"&", "#", "4", "2", "9", "4", "9", "6", "7", "2", "9", "6", ";">>, <<"&", "#", "9", "9", "9", "9", "9", "9", "9", "9", "9", "9", "9", ";">>, <<"&", "#", "x", "1", "0", "0", "0", "0", "0", "0", "0", "0", ";">>,
      <<"&", "#", "1", ";">>, <<"&", "#", "x", "1", "1", "0", "0", "0", "0", ";">>, <<"&", "#", "0", ";">> }

\* The text between two references: nothing a reference could go on with.
Around == {<<>>, <<" ">>, <<"1">>, <<" ", "-", " ">>}

UnresolvedCases ==
    [bad : UnresolvedRefs, ref : ResolvableRefs, pre : {<<>>, <<"1">>}, mid : Around,
     badFirst : BOOLEAN, inAttr : BOOLEAN]

UnresolvedText(c) ==
    c.pre \o (IF c.badFirst THEN c.bad ELSE c.ref.src) \o c.mid
          \o (IF c.badFirst THEN c.ref.src ELSE c.bad) \o <<".">>

BuildUnresolved(c) ==
    IF c.inAttr
    THEN <<"<", "h", "r", " ", "k", "=", "\"">> \o UnresolvedText(c) \o <<"\"", ">">>
    ELSE <<"<", "p", ">">> \o UnresolvedText(c) \o <<"<", "/", "p", ">">>


\* Tags whose name is written in upper, lower or mixed case: an element with
\* its close tag in another case and white space before ">", a void tag and
\* a raw element.
CaseSpellings ==
    { <<<<"D", "I", "V">>, <<"d", "i", "v">>>>, <<<<"D", "I", "V">>, <<"D", "I", "V">>>>, <<<<"d", "i", "v">>, <<"D", "I", "V">>>>,
      <<<<"D", "i", "v">>, <<"d", "I", "V">>>>, <<<<"d", "i", "v">>, <<"d", "i", "v">>>>, <<<<"P", "1">>, <<"p", "1">>>> }

CaseInners ==
    { [src |-> <<>>, nodes |-> <<>>],
      [src |-> <<"t">>, nodes |-> <<Text(<<"t">>)>>],
      [src |-> <<"<", "H", "R", ">">>, nodes |-> <<Void(<<"H", "R">>, NoAttrs)>>],
      [src |-> <<"<", "E", "m", ">", "t", "<", "/", "e", "M", ">">>, nodes |-> <<Element(<<"E", "m">>, NoAttrs, <<Text(<<"t">>)>>)>>] }

CaseElements ==
    {[kind |-> "Element", name |-> s[1], close |-> s[2], space |-> sp, inner |-> in] :
        s \in CaseSpellings, sp \in {<<>>, <<" ">>, <<"\n", "\t">>}, in \in CaseInners}

CaseVoids ==
    {[kind |-> "Void", name |-> n, close |-> e, space |-> <<>>, inner |-> [src |-> <<>>, nodes |-> <<>>]] :
        n \in {<<"H", "R">>, <<"H", "r">>, <<"h", "r">>, <<"B", "R">>, <<"I", "m", "g">>}, e \in {<<">">>, <<"/", ">">>, <<" ", ">">>}}

CaseRaws ==
    {[kind |-> "RawElement", name |-> n, close |-> n, space |-> sp, inner |-> [src |-> <<"t">>, nodes |-> <<>>]] :
        n \in {<<"S", "C", "R", "I", "P", "T">>, <<"S", "t", "y", "l", "e">>, <<"s", "c", "r", "i", "p", "t">>}, sp \in {<<>>, <<" ">>}}

CaseCases == CaseElements \cup CaseVoids \cup CaseRaws

BuildCase(c) ==
    IF c.kind = "Void"
    THEN <<"<">> \o c.name \o c.close
    ELSE <<"<">> \o c.name \o <<">">> \o c.inner.src \o <<"<", "/">> \o c.close \o c.space \o <<">">>


\* Start tags that declare two or three attributes, some of them with the
\* same name: the k-th declaration has the value k, or none.
DupNames == {<<"a">>, <<"A">>, <<"b">>}

DupForms == {"double", "none", "boolean"}

DupDecl == [name : DupNames, form : DupForms]

DupLists == {<<x, y>> : x, y \in DupDecl} \cup {<<x, y, z>> : x, y, z \in DupDecl}

DupCases == [decls : DupLists, kind : {"Void", "Element"}]

DupValue(k) == <<Digits[k + 1]>>

RECURSIVE DeclsSrc(_, _)
\* The declarations from the k-th on, as written, a space before each.
DeclsSrc(decls, k) ==
    IF k > Len(decls) THEN <<>>
    ELSE <<" ">> \o decls[k].name
         \o (IF decls[k].form = "boolean" THEN <<>> ELSE <<"=">> \o Quote(decls[k].form, DupValue(k)))
         \o DeclsSrc(decls, k + 1)

BuildDup(c) ==
    IF c.kind = "Void"
    THEN <<"<", "h", "r">> \o DeclsSrc(c.decls, 1) \o <<">">>
    ELSE <<"<", "p">> \o DeclsSrc(c.decls, 1) \o <<">", "t", "<", "/", "p", ">">>


\* A malformed construct inside a well-formed <div>..</div>, itself after
\* well-formed top-level nodes: the unclosed <p> of several shapes, after
\* well-formed siblings and inside one more element or not.
NestedBad == {<<"<", "p", ">">>, <<"<", "p", ">", "t">>, <<"<", "p", ">", "<", "/", "q", ">">>, <<"<", "p", ">", "<", "i", ">", "<", "/", "i", ">">>}

NestedLead == {<<>>, <<"t">>, <<"<", "b", ">", "<", "/", "b", ">">>}

NestedPre == {<<>>, <<"<", "b", ">", "<", "/", "b", ">">>, <<"t", "<", "h", "r", ">">>}

NestedCases ==
    [pre : NestedPre, lead : NestedLead, bad : NestedBad, deep : BOOLEAN,
     post : {<<>>, <<"<", "b", ">", "<", "/", "b", ">">>}]

\* The text of the case, with the offset of the top-level <div> and of the
\* malformed construct in it.
BuildNested(c) ==
    LET open == IF c.deep THEN <<"<", "d", "i", "v", ">", "<", "a", ">">> ELSE <<"<", "d", "i", "v", ">">>
        close == IF c.deep THEN <<"<", "/", "a", ">", "<", "/", "d", "i", "v", ">">> ELSE <<"<", "/", "d", "i", "v", ">">>
    IN  [src |-> c.pre \o open \o c.lead \o c.bad \o close \o c.post,
         top |-> Len(c.pre),
         at |-> Len(c.pre) + Len(open) + Len(c.lead)]


Input(family, case, src) == [src |-> src, family |-> family, case |-> case]

ParseInputs ==
    {Input("unclosed", <<>>, d) : d \in UnclosedDocs}
        \cup {Input("badsuffix", <<>>, d) : d \in BadSuffixDocs}
        \cup {Input("good", <<>>, d) : d \in GoodDocs}
        \cup {Input("void", c, BuildTag(c)) : c \in VoidCases}
        \cup {Input("name", c, BuildName(c)) : c \in NameCases}
        \cup {Input("raw", c, BuildRaw(c)) : c \in RawCases}
        \cup {Input("attr", c, BuildAttr(c)) : c \in AttrCases}
        \cup {Input("unquoted", c, BuildUnquoted(c)) : c \in UnquotedCases}
        \cup {Input("boolean", <<>>, BooleanAttrDoc), Input("mixed", <<>>, MixedAttrDoc)}
        \cup {Input("ref", c, BuildRef(c)) : c \in RefCases}
        \cup {Input("escaping", <<>>, EscapingDoc)}
        \cup {Input("unresolved", c, BuildUnresolved(c)) : c \in UnresolvedCases}
        \cup {Input("case", c, BuildCase(c)) : c \in CaseCases}
        \cup {Input("dup", c, BuildDup(c)) : c \in DupCases}
        \cup {Input("nested", BuildNested(c), BuildNested(c).src) : c \in NestedCases}

InitParse == InitText(ParseInputs)

\* tag() with the name of the tag parsed, as written and in lower case, on
\* the Soup html_strict returned.
TagOfParsed ==
    /\ text[1].family = "case"
    /\ \E t \in {StrPat(text[1].case.name), StrPat(LowerStr(text[1].case.name))} : CallTag(t)

\* first() of that query.
FirstOfParsed ==
    /\ text[1].family = "case"
    /\ First

NextParse ==
    \/ HtmlStrict
    \/ TagOfParsed
    \/ FirstOfParsed

SpecParse == InitParse /\ [][NextParse]_vars

\* ------------------------------------------------------ reference notions

RECURSIVE Concat(_)
\* The concatenation of a sequence of sequences.
Concat(ss) == IF ss = <<>> THEN <<>> ELSE Head(ss) \o Concat(Tail(ss))

RECURSIVE PreOrder(_, _)
\* The references of the subtree of `node` in pre-order: the node, then the
\* pre-order of each child, the children in document order.
PreOrder(forest, node) ==
    <<node>> \o Concat([i \in 1..Len(NodeChildren(NodeAt(forest, node))) |->
                          PreOrder(forest, node \o <<i>>)])

\* The pre-orders of the roots of a forest, in forest order.
ForestPreOrder(forest) == Concat([i \in 1..Len(forest) |-> PreOrder(forest, <<i>>)])

\* The references of the roots of a forest, in forest order.
Roots(forest) == [i \in 1..Len(forest) |-> <<i>>]

\* The references of the children of every root, in document order.
ChildrenOfRoots(forest) ==
    Concat([i \in 1..Len(forest) |->
              [j \in 1..Len(NodeChildren(forest[i])) |-> <<i, j>>]])

\* The references of `refs` that filter `flt` matches, in the same order.
Matching(forest, flt, refs) ==
    LET Test(r) == FilterMatches(flt, NodeAt(forest, r)) IN SelectSeq(refs, Test)

IsPrefix(s, t) == Len(s) <= Len(t) /\ SubSeq(t, 1, Len(s)) = s

NoRepeat(s) == \A i, j \in 1..Len(s) : s[i] = s[j] => i = j

\* What a sequence that is `expected` in full has returned so far.
Yields(expected, done) == IF done THEN out = expected ELSE IsPrefix(out, expected)

Querying == pc \in {"iter", "done"}

\* ----------------------------------------------------------------- claims

\* C1: a recursive query returns the nodes its filter matches, each once, in
\* the order of the pre-order traversals of the roots taken in forest order
\* (a root included), and returns no node the filter does not match.
C1_RecursiveQueryIsFilteredPreOrder ==
    (Querying /\ query[1].recursive) =>
        /\ Yields(Matching(soup, query[1].filter, ForestPreOrder(soup)), pc = "done")
        /\ NoRepeat(out)

\* A finished recursive query over several roots that returned a root, a
\* nested node, and skipped a node its filter does not match.
C1_Witness ==
    /\ pc = "done"
    /\ query[1].recursive
    /\ Len(soup) >= 2
    /\ \E i, j \in 1..Len(out) : Len(out[i]) = 1 /\ Len(out[j]) >= 2
    /\ \E p \in PathsOf(soup) : ~FilterMatches(query[1].filter, NodeAt(soup, p))

\* C2 as stated: a strict query returns the matching children of every root
\* and never a root.
C2_StrictYieldsChildrenOfRoots ==
    (Querying /\ ~query[1].recursive) =>
        Yields(Matching(soup, query[1].filter, ChildrenOfRoots(soup)), pc = "done")

\* C2, amended: a strict query returns exactly the matching top-level nodes
\* of the bound forest, in forest order, and no node nested inside one.
C2_StrictYieldsRoots ==
    (Querying /\ ~query[1].recursive) =>
        /\ Yields(Matching(soup, query[1].filter, Roots(soup)), pc = "done")
        /\ \A i \in 1..Len(out) : Len(out[i]) = 1

\* A finished strict query that returned a root and left out a nested node
\* its filter matches and a root its filter does not match.
C2_Witness ==
    /\ pc = "done"
    /\ ~query[1].recursive
    /\ out # <<>>
    /\ \E p \in PathsOf(soup) : Len(p) >= 2 /\ FilterMatches(query[1].filter, NodeAt(soup, p))
    /\ \E i \in 1..Len(soup) : ~FilterMatches(query[1].filter, soup[i])

\* The reference, in the forest of the children of x, of a descendant d of x.
Below(x, d) == SubSeq(d, Len(x) + 1, Len(d))

\* C3: on the Soup query() gives for an item X, a strict query returns only
\* direct children of X, and the first result of a recursive query is the
\* first node the filter matches in the pre-order of the descendants of X.
C3_RequeryStrictAndRecursive ==
    (prev # None /\ Querying) =>
        LET x == prev[1].item
            old == prev[1].soup
            hits == Matching(old, query[1].filter, Tail(PreOrder(old, x)))
        IN  IF query[1].recursive
            THEN /\ out # <<>> => (hits # <<>> /\ out[1] = Below(x, hits[1]))
                 /\ (pc = "done" /\ out = <<>>) => hits = <<>>
            ELSE \A i \in 1..Len(out) :
                     /\ Len(out[i]) = 1
                     /\ out[i][1] \in 1..Len(NodeChildren(NodeAt(old, x)))
                     /\ NodeAt(soup, out[i]) = NodeAt(old, x \o out[i])

\* A recursive query over the children of X whose first result is nested
\* inside one child of X while a later child of X matches too.
C3_Witness ==
    /\ prev # None
    /\ Querying
    /\ query[1].recursive
    /\ out # <<>>
    /\ Len(out[1]) >= 2
    /\ \E k \in 1..Len(soup) : k > out[1][1] /\ FilterMatches(query[1].filter, soup[k])

\* C4: the depth-first traversal of a node returns the node first, then the
\* whole subtree of each child in document order; every node of the subtree
\* is returned once and after each of its ancestors.
C4_TraversalIsPreOrder ==
    (pc \in {"tree", "treedone"}) =>
        LET root == tree[1].node
            n == Len(out)
        IN  /\ Yields(PreOrder(soup, root), pc = "treedone")
            /\ out # <<>> => out[1] = root
            /\ NoRepeat(out)
            /\ pc = "treedone" => Range(out) = {p \in PathsOf(soup) : IsPrefix(root, p)}
            /\ \A i, j \in 1..n : (i # j /\ IsPrefix(out[i], out[j])) => i < j
            /\ \A i, j, k \in 1..n :
                   (i < j /\ j < k /\ IsPrefix(out[i], out[k])) => IsPrefix(out[i], out[j])
            /\ \A i, j \in 1..n :
                   (/\ Len(out[i]) = Len(out[j])
                    /\ SubSeq(out[i], 1, Len(out[i]) - 1) = SubSeq(out[j], 1, Len(out[j]) - 1)
                    /\ out[i][Len(out[i])] < out[j][Len(out[j])]) => i < j

\* A finished traversal of a node whose first child has a child of its own
\* and is followed by a second child.
C4_Witness ==
    /\ pc = "treedone"
    /\ \E i, j \in 1..Len(out) :
           /\ i < j
           /\ Len(out[i]) = Len(tree[1].node) + 2
           /\ Len(out[j]) = Len(tree[1].node) + 1

\* The patterns and filters the laws are checked for.
UPatterns ==
    { StrPat(sA), StrPat(sFoo), StrPat(sBar), StrPat(sFooBar),
      BoolPat(TRUE), BoolPat(FALSE),
      RegexPat(<<"i">>), RegexPat(<<"a">>), RegexPat(sFoo) }

UNames == {sClass, sId, sFoo}

UNamePatterns == {BoolPat(TRUE), BoolPat(FALSE), RegexPat(<<"i">>), RegexPat(<<"s">>)}

UFilters ==
    { Unit,
      Tag(StrPat(sA)), Tag(BoolPat(TRUE)), Tag(BoolPat(FALSE)),
      Attr(StrPat(sClass), StrPat(sFoo)), Attr(BoolPat(TRUE), BoolPat(TRUE)),
      And(Tag(StrPat(sA)), Attr(StrPat(sId), BoolPat(TRUE))),
      Or(Tag(StrPat(sB)), Attr(RegexPat(<<"i">>), StrPat(sFoo))) }

NodesOf(forest) == {NodeAt(forest, p) : p \in PathsOf(forest)}

HasName(forest, r) == NodeName(NodeAt(forest, r)) # None

HasAttrs(node) == node.kind \in Named

\* C5: a Tag filter matches no node without a name, whatever its pattern:
\* a query with a tag call returns named nodes only, a recursive tag(true)
\* returns exactly the named nodes in traversal order, tag(false) nothing.
C5_TagMatchesOnlyNamedNodes ==
    Querying =>
        /\ (\E i \in 1..Len(hist.added) : hist.added[i].f = "Tag") =>
               \A i \in 1..Len(out) : HasName(soup, out[i])
        /\ (query[1].recursive /\ hist.added = <<Tag(BoolPat(TRUE))>>) =>
               LET IsNamed(r) == HasName(soup, r) IN
               Yields(SelectSeq(ForestPreOrder(soup), IsNamed), pc = "done")
        /\ hist.added = <<Tag(BoolPat(FALSE))>> => out = <<>>

\* What C6 says of one pair of filters and one node.
AndOrLaw(A, B, node) ==
    /\ FilterMatches(And(A, B), node) = (FilterMatches(A, node) /\ FilterMatches(B, node))
    /\ FilterMatches(Or(A, B), node) = (FilterMatches(A, node) \/ FilterMatches(B, node))

\* C6: And(A, B) matches a node iff A and B both match it, Or(A, B) iff A or
\* B matches it, and () matches every node: for every pair of UFilters over
\* the nodes of a fresh document, and for the two halves of the filter of
\* every query built over it.
C6_FilterCompositionLaws ==
    \A node \in NodesOf(soup) :
        /\ FilterMatches(Unit, node)
        /\ query = None => \A A, B \in UFilters : AndOrLaw(A, B, node)
        /\ (query # None /\ query[1].filter.f = "And") =>
               /\ AndOrLaw(query[1].filter.a, query[1].filter.b, node)
               /\ AndOrLaw(query[1].filter.b, query[1].filter.a, node)

\* A finished query of two calls that returned nothing although a node of
\* the forest is matched by the first call's filter.
C6_Witness ==
    /\ pc = "done"
    /\ query[1].recursive
    /\ Len(hist.added) = 2
    /\ out = <<>>
    /\ \E node \in NodesOf(soup) :
           FilterMatches(hist.added[1], node) /\ ~FilterMatches(hist.added[2], node)

\* What C7 says of one literal name, one value pattern and one node.
AttrLiteralLaw(n, v, node) ==
    FilterMatches(Attr(StrPat(n), v), node)
        <=> /\ HasAttrs(node)
            /\ n \in DOMAIN node.attrs
            /\ PatternMatches(v, node.attrs[n])

\* The Attr filters the calls of the chain added.
AddedAttrs == {hist.added[i] : i \in {j \in 1..Len(hist.added) : hist.added[j].f = "Attr"}}

\* C7: Attr with a literal name matches a node iff the node has an attribute
\* of exactly that name whose value the value pattern matches; never a node
\* without the attribute, never a node without an attribute map. For every
\* name of UNames and pattern of UPatterns over a fresh document, and for
\* every literally named Attr a query over it was built with.
C7_AttrLiteralName ==
    \A node \in NodesOf(soup) :
        /\ query = None => \A n \in UNames, v \in UPatterns : AttrLiteralLaw(n, v, node)
        /\ \A flt \in AddedAttrs :
               flt.name.kind = "str" => AttrLiteralLaw(flt.name.s, flt.value, node)

\* A finished attr("class", "foo") query that returned a node, over a forest
\* that also holds an element without a class and a node without attributes.
C7_Witness ==
    /\ pc = "done"
    /\ hist.added = <<Attr(StrPat(sClass), StrPat(sFoo))>>
    /\ out # <<>>
    /\ \E node \in NodesOf(soup) : HasAttrs(node) /\ sClass \notin DOMAIN node.attrs
    /\ \E node \in NodesOf(soup) : ~HasAttrs(node)

\* What C8 says of one name pattern, one value pattern and one node.
AttrScanLaw(np, v, node) ==
    FilterMatches(Attr(np, v), node)
        <=> /\ HasAttrs(node)
            /\ \E k \in DOMAIN node.attrs :
                   PatternMatches(np, k) /\ PatternMatches(v, node.attrs[k])

\* C8: Attr with a name pattern that is no literal matches a node iff one
\* attribute of the node has its name matched by the name pattern and its
\* value matched by the value pattern; attr(true, true) matches exactly the
\* nodes that carry an attribute. For every pattern pair of UNamePatterns and
\* UPatterns over a fresh document, and for every such Attr a query over it
\* was built with.
C8_AttrPatternName ==
    \A node \in NodesOf(soup) :
        /\ query = None => \A np \in UNamePatterns, v \in UPatterns : AttrScanLaw(np, v, node)
        /\ \A flt \in AddedAttrs :
               flt.name.kind # "str" => AttrScanLaw(flt.name, flt.value, node)
        /\ FilterMatches(Attr(BoolPat(TRUE), BoolPat(TRUE)), node)
               <=> (HasAttrs(node) /\ DOMAIN node.attrs # {})

\* A finished attr(regex, "foo") query that returned nothing over a forest
\* with a node one attribute of which has a matching name and another a
\* matching value.
C8_Witness ==
    /\ pc = "done"
    /\ query[1].recursive
    /\ hist.added = <<Attr(RegexPat(<<"i">>), StrPat(sFoo))>>
    /\ out = <<>>
    /\ \E node \in NodesOf(soup) :
           /\ \E k \in DOMAIN node.attrs : PatternMatches(RegexPat(<<"i">>), k)
           /\ \E k \in DOMAIN node.attrs : PatternMatches(StrPat(sFoo), node.attrs[k])

RECURSIVE Chain(_)
\* The filter of a query built by adding the filters of `leaves` in order.
Chain(leaves) ==
    IF leaves = <<>>
    THEN Unit
    ELSE And(Chain(SubSeq(leaves, 1, Len(leaves) - 1)), leaves[Len(leaves)])

Reverse(s) == [i \in 1..Len(s) |-> s[Len(s) + 1 - i]]

\* C9: the query matches a node iff the filter of every builder call of the
\* chain matches it, in whatever order the calls were made; attr_name(n) adds
\* attr(n, true), attr_value(v) adds attr(true, v), class(p) adds
\* attr("class", p), so class("foo") does not match class="foo bar".
C9_BuilderCallsComposeWithAnd ==
    query # None =>
        /\ \A node \in NodesOf(soup) :
               /\ FilterMatches(query[1].filter, node)
                      <=> \A i \in 1..Len(hist.added) : FilterMatches(hist.added[i], node)
               /\ FilterMatches(query[1].filter, node)
                      <=> FilterMatches(Chain(Reverse(hist.added)), node)
               /\ (HasAttrs(node) /\ sClass \in DOMAIN node.attrs
                     /\ node.attrs[sClass] = sFooBar /\ hist.last.op = "class"
                     /\ hist.last.p1 = StrPat(sFoo))
                      => ~FilterMatches(query[1].filter, node)
        /\ hist.last.op = "attr_name" =>
               query[1].filter.b = Attr(hist.last.p1, BoolPat(TRUE))
        /\ hist.last.op = "attr_value" =>
               query[1].filter.b = Attr(BoolPat(TRUE), hist.last.p1)
        /\ hist.last.op = "class" =>
               query[1].filter.b = Attr(StrPat(sClass), hist.last.p1)

\* A finished two-call query ending in class("foo") that returned nothing
\* over a forest with a node of class "foo bar" the first call's filter
\* matches.
C9_Witness ==
    /\ pc = "done"
    /\ hist.last.op = "class"
    /\ hist.last.p1 = StrPat(sFoo)
    /\ Len(hist.added) = 2
    /\ out = <<>>
    /\ \E node \in NodesOf(soup) :
           /\ HasAttrs(node)
           /\ sClass \in DOMAIN node.attrs
           /\ node.attrs[sClass] = sFooBar
           /\ FilterMatches(hist.added[1], node)

\* The mode of every query is that of the last strict() or recursive() call,
\* recursive when there was none.
ModeIsLastModeCall == query # None => (query[1].recursive <=> hist.mode # "strict")

\* What one builder call changes.
BuilderCallFrame ==
    hist'.n = hist.n + 1 =>
        LET before == IF query = None THEN [recursive |-> TRUE, filter |-> Unit] ELSE query[1]
        IN  /\ soup' = soup
            /\ prev' = prev
            /\ IF hist'.last.op \in {"strict", "recursive"}
               THEN /\ query'[1].recursive = (hist'.last.op = "recursive")
                    /\ query'[1].filter = before.filter
               ELSE query'[1].recursive = before.recursive

\* C10: only strict() and recursive() decide the traversal mode: a query is
\* recursive by default, has the mode of the last of these calls, and keeps
\* mode and forest over tag/attr/attr_name/attr_value/class; strict() and
\* recursive() keep the filter and the forest.
C10_ModeSetOnlyByStrictAndRecursive == []ModeIsLastModeCall /\ [][BuilderCallFrame]_vars

\* A strict query that stayed strict over a later filter call.
C10_Witness ==
    /\ query # None
    /\ ~query[1].recursive
    /\ hist.mode = "strict"
    /\ hist.n >= 2
    /\ hist.last.op \in {"tag", "attr", "attr_name", "attr_value", "class"}

\* C11: first() returns the first item all() yields for the same query and
\* None when all() yields nothing; a query no node matches yields the empty
\* sequence.
C11_FirstIsHeadOfAll ==
    (first # None /\ Querying /\ first[1].q = query[1]) =>
        /\ out # <<>> => first[1].item = Some(out[1])
        /\ first[1].item = None => out = <<>>
        /\ (pc = "done" /\ out = <<>>) => first[1].item = None
        /\ Matching(soup, query[1].filter, ForestPreOrder(soup)) = <<>> =>
               (first[1].item = None /\ out = <<>>)

\* first() returned None and all() of the same query came to its end without
\* an item, over a document of several nodes.
C11_Witness ==
    /\ first # None
    /\ first[1].item = None
    /\ first[1].q = query[1]
    /\ pc = "done"
    /\ out = <<>>
    /\ Len(ForestPreOrder(soup)) >= 3

\* The Soup of X.query() holds the children of X, and an item of a query over
\* it is a node below X in the document X came from.
ItemSoupIsChildren ==
    prev # None =>
        LET x == prev[1].item
            old == prev[1].soup
        IN  /\ soup = NodeChildren(NodeAt(old, x))
            /\ NodeAt(old, x).kind # "Element" => soup = <<>>
            /\ Querying =>
                   \A i \in 1..Len(out) :
                       /\ out[i] # <<>>
                       /\ NodeAt(soup, out[i]) = NodeAt(old, x \o out[i])
                       /\ x \o out[i] \in Range(Tail(PreOrder(old, x)))

\* query() leaves the document of X as it was, and so does every step on the
\* Soup it gave.
ItemSoupFrame ==
    /\ (prev' # prev) => (prev' = Some([soup |-> soup, item |-> prev'[1].item]))
    /\ (prev' = prev) => (soup' = soup)

\* C12: X.query() gives a Soup whose forest is the children of X, in order
\* (empty unless X is an Element); a query over it never returns X, a sibling
\* or an ancestor of X; and the document X came from stays as it was.
C12_ItemQueryIsChildrenOnly == []ItemSoupIsChildren /\ [][ItemSoupFrame]_vars

\* A query over the Soup of X.query() returned a grandchild of X, X having a
\* sibling.
C12_Witness ==
    /\ prev # None
    /\ Querying
    /\ Len(prev[1].soup) >= 2
    /\ \E i \in 1..Len(out) : Len(out[i]) >= 2

\* C13: an element whose start tag is not self-closed and whose close tag is
\* missing or names another element makes the whole parse fail, at any
\* depth and whatever well-formed nodes come first: an error, no forest.
C13_UnclosedElementFailsParse ==
    (parsed # None /\ text[1].family = "unclosed") =>
        /\ ~parsed[1].ok
        /\ parsed[1].val = <<>>
        /\ soup = <<>>
        /\ pc = "error"

\* The parse of a text that begins with a well-formed element and goes on
\* with an unclosed element nested in another has failed.
C13_Witness ==
    /\ parsed # None
    /\ ~parsed[1].ok
    /\ \E u \in Unclosed(MaxDepth) \ Unclosed(0) :
           text[1].src = <<"<", "b", ">", "<", "/", "b", ">">> \o u

\* C14: the parse succeeds only if the node grammar consumes the whole
\* input; with a suffix no node can be parsed from (a stray close tag, a "<"
\* that starts nothing, an unterminated comment or doctype) it is an error
\* and the nodes before the suffix are not returned.
C14_ParseConsumesAllInput ==
    parsed # None =>
        /\ parsed[1].ok <=> ParseP(text[1].src).rest = <<>>
        /\ parsed[1].ok => soup = parsed[1].val
        /\ text[1].family = "badsuffix" =>
               /\ ~parsed[1].ok
               /\ parsed[1].val = <<>>
               /\ soup = <<>>
               /\ pc = "error"

\* The parse has failed on a text of which the node grammar reads some nodes
\* before it stops at an unparsable suffix.
C14_Witness ==
    /\ parsed # None
    /\ ~parsed[1].ok
    /\ text[1].family = "badsuffix"
    /\ ParseP(text[1].src).val # <<>>

\* An unquoted value with the slash of the tag end right after it.
Glued(al, end) == al.unquoted /\ end.slash /\ ~end.space

\* The Void node and its siblings the markup of case c stands for; with
\* `glued` the slash that follows an unquoted value without a space belongs
\* to the value.
VoidExpected(c, glued) ==
    LET last == <<"a">>
        pairs == IF glued /\ Glued(c.al, c.end)
                 THEN {IF p[1] = last THEN <<p[1], p[2] \o <<"/">> >> ELSE p : p \in c.al.pairs}
                 ELSE c.al.pairs
    IN  <<Void(c.name, AttrMap(pairs))>> \o StrictParse(c.tail).val

\* html_strict has run on an input of the family.
Parsed(family) == parsed # None /\ text[1].family = family

\* C15 as stated: a void start tag parses to the same Void node, with the
\* name and the attributes as written, whether it ends in "/>" or ">", with
\* or without a space before; what follows it is no child of it.
C15_VoidSameWithAndWithoutSlash ==
    Parsed("void") =>
        LET c == text[1].case IN
                (parsed[1].ok /\ parsed[1].val = VoidExpected(c, FALSE))

\* C15, amended: the same, except that a slash which follows an unquoted
\* value without a space is the last character of that value.
C15_VoidSameUnlessSlashInValue ==
    Parsed("void") =>
        LET c == text[1].case IN
                /\ parsed[1].ok
                /\ parsed[1].val = VoidExpected(c, TRUE)
                /\ soup[1].kind = "Void"
                /\ NodeChildren(soup[1]) = <<>>
                /\ \A e \in TagEnds :
                       (~Glued(c.al, c.end) /\ ~Glued(c.al, e)) =>
                           StrictParse(BuildTag([c EXCEPT !.end = e])).val[1] = soup[1]

\* A void tag with a quoted attribute, ended by ">" without a slash and
\* followed by an element, has been parsed.
C15_Witness ==
    /\ Parsed("void")
    /\ parsed[1].ok
    /\ LET c == text[1].case IN
           /\ c.al.pairs # {}
           /\ ~c.al.unquoted
           /\ ~c.end.slash
           /\ Len(c.tail) > 1

\* The complete name is one of the void names, whatever its case.
IsVoidName(name) == LowerStr(name) \in Range(VoidNames)

\* C16: a start tag is parsed as a Void node iff its complete name is, in any
\* case, one of the 13 void names; a tag whose name only begins with a void
\* name is an Element with its whole name and no attribute.
C16_VoidIffCompleteNameIsVoid ==
    Parsed("name") =>
        LET c == text[1].case IN
                IF IsVoidName(c.name)
                THEN c.form # "pair" =>
                         (parsed[1].ok /\ parsed[1].val = <<Void(c.name, NoAttrs)>>)
                ELSE c.form # "void" =>
                         (parsed[1].ok /\ parsed[1].val = <<Element(c.name, NoAttrs, <<>>)>>)

\* The RawElement and its siblings the markup of case c stands for.
RawExpected(c) ==
    <<RawElement(c.name, AttrMap(c.al.pairs), IF c.closed THEN <<>> ELSE c.content.trimmed)>>
        \o StrictParse(c.tail).val

\* C17: the content of a script or style element that is not self-closed is
\* the text between the start tag and the close tag, trimmed, and is not
\* parsed as markup; the RawElement has no children; a self-closed one has
\* empty content.  The close tag spells the name as the start tag does.
C17_RawContentIsTrimmedLiteral ==
    (Parsed("raw") /\ text[1].case.close = text[1].case.name) =>
        LET c == text[1].case IN
                /\ parsed[1].ok
                /\ parsed[1].val = RawExpected(c)
                /\ soup[1].kind = "RawElement"
                /\ NodeChildren(soup[1]) = <<>>
                /\ c.closed => soup[1].text = <<>>

\* A script element whose content has markup in it and white space around
\* it has been parsed.
C17_Witness ==
    /\ Parsed("raw")
    /\ parsed[1].ok
    /\ LET c == text[1].case IN
           /\ c.close = c.name
           /\ ~c.closed
           /\ c.content.src # c.content.trimmed
           /\ \E k \in 1..Len(c.content.trimmed) : c.content.trimmed[k] = "<"

\* C18: the close tag of a raw element is recognised whatever the case of
\* its name: <SCRIPT>..</script> and <script>..</SCRIPT > parse to a
\* RawElement whose content is the text in between.
C18_RawCloseTagAnyCase ==
    (Parsed("raw") /\ text[1].case.close # text[1].case.name) =>
        LET c == text[1].case IN
                (parsed[1].ok /\ parsed[1].val = RawExpected(c))

\* <hr> with the one attribute value -> v.
HrWithValue(v) == <<Void(<<"h", "r">>, AttrMap({<< <<"v", "a", "l", "u", "e">>, v >>}))>>

\* C19: an attribute written unquoted, single-quoted or double-quoted, with
\* any white space around "=", gives the same entry name -> v; a name alone
\* gives name -> ""; a tag with attributes of every form gives the map of
\* all of them.
C19_AttrFormsGiveSameEntry ==
    parsed # None =>
        /\ text[1].family = "attr" =>
               (parsed[1].ok /\ parsed[1].val = HrWithValue(text[1].case.value))
        /\ text[1].family = "boolean" =>
               /\ parsed[1].ok
               /\ parsed[1].val =
                      <<Void(<<"h", "r">>,
                             AttrMap({<< <<"d", "i", "s", "a", "b", "l", "e", "d">>, <<>> >>}))>>
        /\ text[1].family = "mixed" =>
               (parsed[1].ok /\ parsed[1].val = <<Void(<<"h", "r">>, MixedAttrs)>>)

\* C20: an unquoted value is the longest run of characters that are neither
\* white space nor one of " ' = < > and the grave accent; letters (t, n, f
\* and r too) and the backslash belong to it, and it ends at the first
\* white space character of any kind.
C20_UnquotedValueIsMaximalRun ==
    Parsed("unquoted") =>
        LET c == text[1].case IN
                (parsed[1].ok /\ parsed[1].val = HrWithValue(c.value))

\* ------------------------------------------------------------------ C21

RECURSIVE Nest(_, _)
\* node inside d elements named a without attributes
Nest(d, node) == IF d = 0 THEN node ELSE Element(sA, NoAttrs, <<Nest(d - 1, node)>>)

\* The node a reference written at a place is expected to give: decoded in a
\* Text node and in an attribute value, as written anywhere else.
RefExpected(c) ==
    LET k == <<"k">>
        t == <<Text(<<"t">>)>>
    IN  CASE c.place = "text" -> Text(<<"1">> \o c.ref.text \o <<"2">>)
          [] c.place = "attr" -> Element(sB, AttrMap({<<k, c.ref.text>>}), t)
          [] c.place = "voidattr" -> Void(<<"h", "r">>, AttrMap({<<k, c.ref.text>>}))
          [] c.place = "rawattr" ->
                 RawElement(<<"s", "t", "y", "l", "e">>, AttrMap({<<k, c.ref.text>>}), <<"t">>)
          [] c.place = "attrname" -> Void(<<"h", "r">>, AttrMap({<<c.ref.src, <<>>>>}))
          [] c.place = "comment" -> Comment(c.ref.src)
          [] c.place = "doctype" -> Doctype(c.ref.src)
          [] c.place = "raw" -> RawElement(<<"s", "c", "r", "i", "p", "t">>, NoAttrs, c.ref.src)

\* The forest test_escaping expects.
EscapingExpected ==
    << Element(sA,
               AttrMap({<< <<"h", "r", "e", "f">>,
                           <<"/", "i", "n", "d", "e", "x", ".", "h", "t", "m", "l">> >>}),
               << Text(<<"H", "e", "l", "l", "o", " ", "&", " ",
                         "G", "o", "o", "d", "b", "y", "e", "!">>) >>) >>

\* C21: after a successful strict parse a character reference is decoded in
\* the content of a Text node and in an attribute value of an Element, a
\* RawElement and a Void node, at every depth, and is stored as written in a
\* Comment, a Doctype, the content of a RawElement and an attribute name.
C21_ReferencesDecodedInTextAndValuesOnly ==
    /\ Parsed("ref") =>
           /\ parsed[1].ok
           /\ soup = <<Nest(text[1].case.depth, RefExpected(text[1].case))>>
    /\ Parsed("escaping") => (parsed[1].ok /\ soup = EscapingExpected)

\* A reference in a Text node two elements deep, and one in a comment, have
\* been parsed.
C21_Witness ==
    /\ Parsed("ref")
    /\ parsed[1].ok
    /\ text[1].case.depth = MaxDepth
    /\ text[1].case.place = "text"
    /\ text[1].case.ref.text = <<"<">>
    /\ NodeAt(soup, <<1>>).kind = "Element"

\* ------------------------------------------------------------------ C22

\* The text of an unresolved case after decoding: the reference that does
\* not resolve as written, the other one decoded, the rest unchanged.
UnresolvedExpected(c) ==
    c.pre \o (IF c.badFirst THEN c.bad ELSE c.ref.text) \o c.mid
          \o (IF c.badFirst THEN c.ref.text ELSE c.bad) \o <<".">>

\* C22: a character reference that does not resolve is copied as written,
\* the text around it is unchanged, a resolvable reference in the same text
\* is decoded, and the parse succeeds.
C22_UnresolvedReferenceKept ==
    Parsed("unresolved") =>
        /\ parsed[1].ok
        /\ LET c == text[1].case IN
           soup = IF c.inAttr
                  THEN <<Void(<<"h", "r">>, AttrMap({<< <<"k">>, UnresolvedExpected(c) >>}))>>
                  ELSE <<Element(<<"p">>, NoAttrs, <<Text(UnresolvedExpected(c))>>)>>

\* A text with a number that overflows followed by a resolvable reference has
\* been parsed.
C22_Witness ==
    /\ Parsed("unresolved")
    /\ parsed[1].ok
    /\ text[1].case.badFirst
    /\ ~text[1].case.inAttr
    /\ Len(text[1].case.bad) > 12
    /\ text[1].case.mid = <<>>

\* ------------------------------------------------------------------ C23

RECURSIVE RunAlone(_, _, _)
\* The items a sequence in the state s returns when it alone is advanced
\* until it returns None (n bounds the calls).
RunAlone(forest, s, n) ==
    IF n = 0 THEN <<>> ELSE
    LET r == SeqNext(forest, s) IN
    IF r.item = None THEN <<>> ELSE <<r.item[1]>> \o RunAlone(forest, [s EXCEPT !.st = r.it], n - 1)

\* The sequence as it was made.
Fresh(forest, s) ==
    IF s.kind = "tree" THEN ShareTraversal(forest, s.arg) ELSE ShareQuery(forest, s.arg)

\* What the sequence returns when run alone.
Alone(forest, s) == RunAlone(forest, Fresh(forest, s), Cardinality(PathsOf(forest)) + 1)

\* C23: sequences over one document can be advanced in any interleaving:
\* each returns the items, in the order, it returns when run alone, and no
\* step changes the forest.
C23_InterleavedSequencesIndependent ==
    pc = "share" =>
        /\ soup = prev[1]
        /\ \A k \in 1..Len(iter) :
               /\ IsPrefix(iter[k].out, Alone(soup, iter[k]))
               /\ iter[k].done => iter[k].out = Alone(soup, iter[k])

\* Two sequences made from the same query have been advanced in turn: the
\* first is finished, the second is in the middle.
C23_Witness ==
    /\ pc = "share"
    /\ Len(iter) = 2
    /\ iter[1].kind = "query" /\ iter[2].kind = "query"
    /\ iter[1].arg = iter[2].arg
    /\ iter[1].done /\ Len(iter[1].out) >= 2
    /\ ~iter[2].done /\ Len(iter[2].out) = 1

\* ------------------------------------------------------------------ C24

TextRefs(forest, node) ==
    SelectSeq(PreOrder(forest, node), LAMBDA p : NodeAt(forest, p).kind = "Text")

\* The contents of the nodes of refs, a newline between two of them.
Lines(forest, refs) ==
    Concat([k \in 1..Len(refs) |->
              NodeAt(forest, refs[k]).text \o (IF k < Len(refs) THEN <<"\n">> ELSE <<>>)])

\* C25: all_text() of a node is the contents of the Text nodes of its
\* pre-order traversal, the node included, in that order, joined by one
\* newline with none before or after; Comment, Doctype and RawElement text
\* is left out and a subtree without Text nodes gives the empty string.
C25_AllTextIsJoinedTextNodes ==
    pc = "alltext" =>
        LET refs == TextRefs(soup, out[1].node) IN
        /\ out[1].text = Lines(soup, refs)
        /\ refs = <<>> => out[1].text = <<>>
        /\ NodeAt(soup, out[1].node).kind = "Text" => out[1].text = NodeAt(soup, out[1].node).text
        /\ NodeAt(soup, out[1].node).kind \in {"Comment", "Doctype", "RawElement"} =>
               out[1].text = <<>>

\* all_text() of an element that holds two different texts and a comment or
\* a raw element has been taken.
C25_Witness ==
    /\ pc = "alltext"
    /\ Len(TextRefs(soup, out[1].node)) = 2
    /\ \E p, q \in Range(TextRefs(soup, out[1].node)) :
           NodeAt(soup, p).text # NodeAt(soup, q).text
    /\ \E p \in Range(PreOrder(soup, out[1].node)) :
           NodeAt(soup, p).kind \in {"Comment", "RawElement"}

\* ------------------------------------------------------------------ C26

\* The node a tag of the case family is expected to give.
CaseExpected(c) ==
    CASE c.kind = "Element" -> Element(c.name, NoAttrs, c.inner.nodes)
      [] c.kind = "Void" -> Void(c.name, NoAttrs)
      [] c.kind = "RawElement" -> RawElement(c.name, NoAttrs, c.inner.src)

\* The literal tag pattern the query in hand was last given.
AskedName == hist.last.p1.s

\* C26: a tag name is stored as written, with no case normalisation; the
\* close tag of an element matches in any case and with white space before
\* ">"; a literal tag() query matches the parsed node only when the
\* pattern has the case the name was written in.
C26_NamesKeepCaseCloseTagAnyCase ==
    Parsed("case") =>
        /\ parsed[1].ok
        /\ parsed[1].val = <<CaseExpected(text[1].case)>>
        /\ NodeName(parsed[1].val[1]) = Some(text[1].case.name)
        /\ (first # None /\ hist.n = 1) =>
               first[1].item = IF AskedName = text[1].case.name THEN Some(<<1>>) ELSE None

\* <DIV>..</div > has been parsed and tag("div") has found nothing in it.
C26_Witness ==
    /\ Parsed("case")
    /\ parsed[1].ok
    /\ text[1].case.kind = "Element"
    /\ text[1].case.name # text[1].case.close
    /\ text[1].case.name # LowerStr(text[1].case.name)
    /\ text[1].case.space = <<" ">>
    /\ first # None /\ hist.n = 1
    /\ AskedName = LowerStr(text[1].case.name)
    /\ first[1].item = None

\* ------------------------------------------------------------------ C27

\* The items returned are no more than the nodes of the forest, and a
\* finished traversal has returned as many items as its subtree has nodes.
OutputBounded ==
    /\ pc \in {"iter", "done", "tree", "treedone"} => Len(out) <= Cardinality(PathsOf(soup))
    /\ pc = "treedone" => Len(out) = Len(PreOrder(soup, tree[1].node))

\* A call of next on a sequence that has returned None returns None.
NoneStaysNone == pc \in {"done", "treedone"} => (out' = out /\ pc' = pc)

\* C27: over a finite forest a traversal and a query return None after
\* finitely many calls of next, a traversal after one item per node of the
\* subtree, and every call after the first None returns None.
C27_SequencesFiniteAndFused ==
    /\ []OutputBounded
    /\ [][NoneStaysNone]_vars
    /\ (pc = "iter") ~> (pc = "done")
    /\ (pc = "tree") ~> (pc = "treedone")

\* The traversal of a node with five nodes in its subtree has finished.
C27_Witness == pc = "treedone" /\ Len(out) = 5

\* ------------------------------------------------------------------ C28

\* The last declaration of the name n in decls.
LastDecl(decls, n) ==
    CHOOSE k \in 1..Len(decls) :
        decls[k].name = n /\ \A h \in (k + 1)..Len(decls) : decls[h].name # n

\* C28: when a start tag declares an attribute name more than once the
\* parse succeeds, the map has the name once with the value of the last
\* declaration, and as many entries as distinct names are declared.
C28_DuplicateAttributeLastWins ==
    Parsed("dup") =>
        LET decls == text[1].case.decls
            names == {decls[k].name : k \in 1..Len(decls)}
            attrs == NodeAttrs(soup[1])[1]
        IN  /\ parsed[1].ok
            /\ Len(soup) = 1
            /\ soup[1].kind = text[1].case.kind
            /\ DOMAIN attrs = names
            /\ Cardinality(DOMAIN attrs) = Cardinality(names)
            /\ \A n \in names :
                   attrs[n] = IF decls[LastDecl(decls, n)].form = "boolean"
                              THEN <<>>
                              ELSE DupValue(LastDecl(decls, n))

\* <hr a=.. b.. a=..> with two different values for a has been parsed.
C28_Witness ==
    /\ Parsed("dup")
    /\ parsed[1].ok
    /\ LET decls == text[1].case.decls IN
       /\ Len(decls) = 3
       /\ decls[1].name = decls[3].name /\ decls[2].name # decls[1].name
       /\ decls[1].form = "double" /\ decls[3].form = "none"
       /\ Cardinality(DOMAIN soup[1].attrs) = 2

\* ------------------------------------------------------------------ C29

\* The lookup and the scan agree on one literal name, value pattern and node.
FastPathLaw(n, v, node) ==
    AttrMatches(Attr(StrPat(n), v), node) <=> AttrMatchesScan(Attr(StrPat(n), v), node)

\* C29: for a literal name the lookup of Attr::matches gives the boolean the
\* scan over all the pairs of the node would give, for every node of the
\* document, every name of UNames and value pattern of UPatterns, and for
\* every literally named Attr a query was built with.
C29_LiteralNameFastPathEqualsScan ==
    \A node \in NodesOf(soup) :
        /\ query = None => \A n \in UNames, v \in UPatterns : FastPathLaw(n, v, node)
        /\ \A flt \in AddedAttrs :
               flt.name.kind = "str" => FastPathLaw(flt.name.s, flt.value, node)

\* A finished class("foo") query that returned a node of two attributes,
\* where the scan meets a pair of another name before or after the class.
C29_Witness ==
    /\ pc = "done"
    /\ hist.last.op = "class"
    /\ hist.added = <<Attr(StrPat(sClass), StrPat(sFoo))>>
    /\ \E i \in 1..Len(out) :
           LET node == NodeAt(soup, out[i]) IN
               /\ HasAttrs(node)
               /\ Cardinality(DOMAIN node.attrs) = 2
               /\ sClass \in DOMAIN node.attrs

\* ------------------------------------------------------------------ C30

\* The offset in the text at which the input the error carries begins.
ErrorOffset == Len(text[1].src) - Len(parsed[1].rest)

\* The error of a malformed construct in a top-level element carries the
\* input from the start of that top-level element on.
ErrorAtTopLevelNode ==
    Parsed("nested") =>
        /\ ~parsed[1].ok
        /\ ErrorOffset = text[1].case.top
        /\ parsed[1].rest = Drop(text[1].src, text[1].case.top)

\* C30: the error of a failed parse carries the input from the point of
\* failure on: for an unclosed <p> inside <div>..</div> the position lies in
\* the <div>, at the <p> or after it, not at the start of the <div>.
C30_ErrorAtPointOfFailure ==
    (Parsed("nested") /\ ~parsed[1].ok) =>
        /\ ErrorOffset > text[1].case.top
        /\ ErrorOffset >= text[1].case.at

====
